---- MODULE Spec2Model ----
(***************************************************************************)
(* Model of the NFC reader/writer engine (src/app): the session            *)
(* orchestrator loops (continuous scan, batch write, read-source, copy)    *)
(* and the transfer engine's write protocol.  Each worker is a state       *)
(* machine whose steps are the device operations of one polling iteration; *)
(* the device, the tag on the field and the clock are the environment.     *)
(***************************************************************************)
EXTENDS Integers, Sequences, FiniteSets, TLC

\* ---------------------------------------------------------------- bounds
\* seconds added to the clock by one Tick of the environment
TickSeconds == 10
\* successful polls recorded by the scan history (the dedup scenario needs 4)
MaxPolls == 4
\* largest quantity asked of a batch write or a copy
MaxQuantity == 2
\* largest number of pages of an encoded message in the write protocol
MaxPages == 5
\* largest number of transmits that raise during one write_url_to_tag call
MaxFaults == 3
\* largest number of worker threads of the shell alive at one time
MaxThreads == 2
\* largest number of fragments an input string of the codec is made of
MaxFragments == 2
\* largest number of devices readers_func() enumerates
MaxReaders == 2

\* ------------------------------------------------------- program constants
\* gui.py: self.scan_timeout = 30
scan_timeout == 30
\* copier.py: read_source_tag(self, timeout: int = 30, ...)
read_timeout == 30
\* copier.py: self.max_retries = 3
max_retries == 3
\* writer.py write_url_to_tag: max_retries = 3
write_max_retries == 3
\* writer.py: page = 4 + (i // chunk_size)  # Start from page 4
BasePage == 4
\* writer.py: range(4, min(8, ...)): verification stops before page 8
VerifyEnd == 8
\* writer.py _create_url_ndef: the shortest message (empty payload) is 8 bytes
MinPages == 2

\* ------------------------------------------------------------------ values
None == "None"
UIDS == {"A", "B"}

\* a returned Python bool, as a string beside None
Ret(b) == IF b THEN "True" ELSE "False"

Min(a, b) == IF a < b THEN a ELSE b

VARIABLES
    pc,             \* position of the worker thread ("idle" = no worker running)
    reader,         \* NFCReader.reader is set (a device was found)
    conn_open,      \* the iteration's connection is connected and not yet disconnected
    last_status,    \* last text handed to the status callback / status signal
    scanning,       \* NFCReaderGUI.scanning
    last_uid,       \* scan_loop local last_uid
    uid,            \* scan_loop local uid
    since_activity, \* time.time() - last_activity_time, saturated above scan_timeout
    since_new_tag,  \* history: seconds since the last new-tag event (or loop start)
    polls,          \* history: UIDs of the successful identity polls of this run
    new_tag_log,    \* history: UIDs of the new-tag events of this run
    clean,          \* history: no failed or faulted iteration so far in this run
    iter_error,     \* history: the current iteration hit an error
    tags_written,   \* batch_write_tags / copy_to_new_tags local tags_written
    quantity,       \* number of tags asked for
    progress,       \* last arguments of the progress callback
    success,        \* local success: outcome of the last write_url_to_tag call
    result,         \* return value of the last finished operation
    copying,        \* NFCCopier.copying
    copies_made,    \* NFCCopier.copies_made
    source_tag_data,\* NFCCopier.source_tag_data (None or the stored memory)
    source_tag_url, \* NFCCopier.source_tag_url (None or the resolved address)
    source_tag_uid, \* NFCCopier.source_tag_uid
    rs_elapsed,     \* time.time() - (timeout_time - timeout), saturated
    retry,          \* copy_to_new_tags: index of the write attempt
    write_calls,    \* history: UIDs write_url_to_tag was invoked on in this copy
    stop_requested, \* history: stop_copy_operation was called during this run
    n_pages,        \* write_url_to_tag: number of 4-byte chunks of ndef_data
    lock,           \* write_url_to_tag: the lock argument
    w_page,         \* write_url_to_tag: page of the command being sent
    w_retry,        \* write_url_to_tag: retry index of the command being sent
    w_ok,           \* write_url_to_tag: the returned success flag (None: running)
    w_message,      \* write_url_to_tag: the returned message, <<>> while running
    trace,          \* history: the transmits of this call, in order, with outcome
    faults,         \* history: number of transmits of this call that raised
    threads,        \* the shell's worker threads: kind and position of each
    tab,            \* index of the current tab of the shell's tab widget
    copy_button,    \* copy_tab.copy_button is enabled
    read_button,    \* copy_tab.read_source_button is enabled
    stop_button,    \* copy_tab.stop_copy_button is enabled
    stopped,        \* history: workers alive at a stop_copy_operation since their start
    codec_pc,       \* stage of the codec pipeline applied to the input
    url,            \* validate_url: the argument (an address string)
    normalized,     \* validate_url(url): <<>> or <<[is_valid, normalized_url]>>
    renormalized,   \* validate_url applied to the normalized string
    text,           \* _create_url_ndef: the argument
    ndef_data,      \* _create_url_ndef(text): the message bytes
    data,           \* extract_url_from_data: the buffer argument
    complete_url,   \* extract_url_from_data(data): <<>> (None) or <<string>>
    rd_pc,          \* read_tag_memory[_full]: position of the call
    extended,       \* the call is read_tag_memory_full
    is_acr122u,     \* "ACR122" in str(self.reader)
    rd_page,        \* read_tag_memory[_full]: loop variable page
    all_data,       \* read_tag_memory[_full]: all_data
    page_reads,     \* history: page numbers of the READ_PAGE transmits of the loop
    first_stop,     \* history: first page that failed or began with 0xFE (0: none)
    rd_checks,      \* history: outcomes of the presence check and the page 3 read
    rd_raised,      \* history: an exception left read_tag_memory[_full]
    cn_pc,          \* connect_with_retry: position of the call
    attempt,        \* connect_with_retry: loop variable attempt
    protocol,       \* connect_with_retry: index of the loop variable protocol
    connects,       \* history: number of connection.connect() calls of this call
    cn_result,      \* connect_with_retry: the returned success flag (None: running)
    cn_raised,      \* history: an exception left connect_with_retry
    cn_calls,       \* history: the last two calls on the channel, with outcome
    available_readers, \* find_reader: the names readers_func() returned
    selected,       \* find_reader: name of the device stored in self.reader
    fr_result,      \* find_reader: <<>> while it runs, else <<success, message>>
    fr_pc,          \* find_reader: position of the call
    tag_locked,     \* history: LOCK_CARD was sent to the tag of this iteration
    readback,       \* history: address _verify_tag_write decoded, <<>> for none
    last_poll,      \* history: <<uid, wrote>> of the batch's latest identity poll
    counted         \* history: UIDs of the tags this batch has counted

devVars  == <<reader, conn_open, last_status>>
loopVars == <<last_uid, uid, iter_error>>
scanVars == <<scanning, since_activity, since_new_tag, polls, new_tag_log, clean>>
xferVars == <<tags_written, quantity, progress, success, result>>
copyVars == <<copying, copies_made, source_tag_data, source_tag_url,
              source_tag_uid, rs_elapsed, retry, write_calls, stop_requested>>
writeVars == <<n_pages, lock, w_page, w_retry, w_ok, w_message, trace, faults>>
shellVars == <<threads, tab, copy_button, read_button, stop_button, stopped>>
\* the variables of the components modelled apart from the worker loops
codecVars == <<codec_pc, url, normalized, renormalized, text, ndef_data, data,
               complete_url>>
readVars == <<rd_pc, extended, is_acr122u, rd_page, all_data, page_reads, first_stop,
              rd_checks, rd_raised>>
connVars == <<cn_pc, attempt, protocol, connects, cn_result, cn_raised, cn_calls>>
findVars == <<available_readers, selected, fr_result, fr_pc>>
ledgerVars == <<tag_locked, readback, last_poll, counted>>
\* the variables of the components modelled apart from the transfer loops
otherAux == <<shellVars, codecVars, readVars, connVars, findVars>>
auxVars == <<otherAux, ledgerVars>>
vars == <<pc, devVars, loopVars, scanVars, xferVars, copyVars, writeVars, auxVars>>

\* positions of the workers
ScanPcs == {"scan_top", "scan_connect", "scan_get_uid", "scan_present",
            "scan_dedup", "scan_read", "scan_disconnect", "scan_except",
            "scan_sleep"}
RsPcs == {"rs_top", "rs_connect", "rs_get_uid", "rs_detect", "rs_read",
          "rs_disconnect", "rs_except", "rs_sleep"}
CpPcs == {"cp_top", "cp_connect", "cp_get_uid", "cp_source_guard", "cp_dedup",
          "cp_write", "cp_verify", "cp_disconnect", "cp_except"}

\* the clock saturates one second above the timeout it is compared with
Advance(t, limit) == Min(t + TickSeconds, limit + 1)

\* a slot of the shell's thread table that holds no thread
NoThread == [kind |-> "none", at |-> "none"]

\* ==================================================== strings and bytes
\* Strings are TLA+ strings over printable ASCII; text.encode('utf-8') of
\* such a string is one byte per character.  The characters 0x20..0x5F and
\* 0x61..0x7E in code order (a TLA+ string cannot hold the backquote 0x60,
\* which no input of the model contains).
AsciiLow == " !\"#$%&'()*+,-./0123456789:;<=>?@ABCDEFGHIJKLMNOPQRSTUVWXYZ[\\]^_"
AsciiHigh == "abcdefghijklmnopqrstuvwxyz{|}~"

Char(s, i) == SubSeq(s, i, i)

\* ord(c) and chr(b)
Ord(c) ==
    IF \E i \in 1..Len(AsciiLow) : Char(AsciiLow, i) = c
    THEN 31 + (CHOOSE i \in 1..Len(AsciiLow) : Char(AsciiLow, i) = c)
    ELSE 96 + (CHOOSE i \in 1..Len(AsciiHigh) : Char(AsciiHigh, i) = c)
Chr(b) == IF b < 96 THEN Char(AsciiLow, b - 31) ELSE Char(AsciiHigh, b - 96)

Utf8(s) == [i \in 1..Len(s) |-> Ord(Char(s, i))]

Digits == {Chr(b) : b \in 48..57}
Letters == {Chr(b) : b \in (65..90) \cup (97..122)}
\* the character class [a-zA-Z0-9-]
LabelChars == Letters \cup Digits \cup {"-"}
\* \s within ASCII
Whitespace == {" ", "\t", "\n", "\r", "\f"}

\* s.startswith(p), s[n:], p in s
StartsWith(s, p) == Len(s) >= Len(p) /\ SubSeq(s, 1, Len(p)) = p
StartsWithAny(s, ps) == \E k \in 1..Len(ps) : StartsWith(s, ps[k])
Drop(s, n) == SubSeq(s, n + 1, Len(s))
Contains(s, p) == \E i \in 1..(Len(s) - Len(p) + 1) : SubSeq(s, i, i + Len(p) - 1) = p

\* s.replace(p, '')
RECURSIVE RemoveAll(_, _)
RemoveAll(s, p) ==
    IF Len(s) < Len(p) THEN s
    ELSE IF StartsWith(s, p) THEN RemoveAll(Drop(s, Len(p)), p)
    ELSE Char(s, 1) \o RemoveAll(Drop(s, 1), p)

\* s.strip()
RECURSIVE Strip(_)
Strip(s) ==
    IF Len(s) = 0 THEN s
    ELSE IF Char(s, 1) \in Whitespace THEN Strip(Drop(s, 1))
    ELSE IF Char(s, Len(s)) \in Whitespace THEN Strip(SubSeq(s, 1, Len(s) - 1))
    ELSE s

\* s.lower()
RECURSIVE Lower(_)
Lower(s) ==
    IF Len(s) = 0 THEN s
    ELSE LET b == Ord(Char(s, 1))
         IN (IF b \in 65..90 THEN Chr(b + 32) ELSE Char(s, 1)) \o Lower(Drop(s, 1))

\* index just after the longest run of [a-zA-Z0-9-] starting at index i
RECURSIVE LabelRun(_, _)
LabelRun(s, i) ==
    IF i <= Len(s) /\ Char(s, i) \in LabelChars THEN LabelRun(s, i + 1) ELSE i

\* match "[a-zA-Z0-9-]+\." at index i: the index after the dot, or 0
LabelDot(s, i) ==
    LET r == LabelRun(s, i)
    IN IF r > i /\ r <= Len(s) /\ Char(s, r) = "." THEN r + 1 ELSE 0

\* match "[a-zA-Z]{2,}" at index i
TwoLetters(s, i) ==
    /\ i + 1 <= Len(s)
    /\ Char(s, i) \in Letters
    /\ Char(s, i + 1) \in Letters

\* re.match(r'^[a-zA-Z0-9-]+\.[a-zA-Z0-9-]+\.[a-zA-Z]{2,}', s) or
\* re.match(r'^[a-zA-Z0-9-]+\.[a-zA-Z]{2,}', s)
DomainLike(s) ==
    LET j == LabelDot(s, 1)
    IN /\ j # 0
       /\ \/ TwoLetters(s, j)
          \/ LET k == LabelDot(s, j) IN k # 0 /\ TwoLetters(s, k)

\* ================================================================ scan loop
InitDev ==
    /\ reader = TRUE
    /\ conn_open = FALSE
    /\ last_status = None

InitLoopVars ==
    /\ last_uid = None
    /\ uid = None
    /\ iter_error = FALSE

InitScanVars ==
    /\ scanning = FALSE
    /\ since_activity = 0
    /\ since_new_tag = 0
    /\ polls = <<>>
    /\ new_tag_log = <<>>
    /\ clean = TRUE

InitCopyVars ==
    /\ copying = FALSE
    /\ copies_made = 0
    /\ source_tag_data = None
    /\ source_tag_url = None
    /\ source_tag_uid = None
    /\ rs_elapsed = 0
    /\ retry = 0
    /\ write_calls = {}
    /\ stop_requested = FALSE

InitWriteVars ==
    /\ n_pages = MinPages
    /\ lock = FALSE
    /\ w_page = BasePage
    /\ w_retry = 0
    /\ w_ok = None
    /\ w_message = <<>>
    /\ trace = <<>>
    /\ faults = 0

InitXferVars ==
    /\ tags_written = 0
    /\ quantity = 1
    /\ progress = <<>>
    /\ success = FALSE
    /\ result = None

\* check_reader timer: find_reader() sets or clears NFCReader.reader
InitShellVars ==
    /\ threads = [t \in 1..MaxThreads |-> NoThread]
    /\ tab = 0
    /\ copy_button = FALSE
    /\ read_button = TRUE
    /\ stop_button = FALSE
    /\ stopped = {}

InitCodecVars ==
    /\ codec_pc = "idle"
    /\ url = ""
    /\ normalized = <<>>
    /\ renormalized = <<>>
    /\ text = ""
    /\ ndef_data = <<>>
    /\ data = <<>>
    /\ complete_url = <<>>

InitReadVars ==
    /\ rd_pc = "idle"
    /\ extended = FALSE
    /\ is_acr122u = FALSE
    /\ rd_page = BasePage
    /\ all_data = <<>>
    /\ page_reads = <<>>
    /\ first_stop = 0
    /\ rd_checks = <<>>
    /\ rd_raised = FALSE

InitConnVars ==
    /\ cn_pc = "idle"
    /\ attempt = 0
    /\ protocol = 1
    /\ connects = 0
    /\ cn_result = None
    /\ cn_raised = FALSE
    /\ cn_calls = <<>>

InitFindVars ==
    /\ available_readers = <<>>
    /\ selected = None
    /\ fr_result = <<>>
    /\ fr_pc = "idle"

InitLedgerVars ==
    /\ tag_locked = FALSE
    /\ readback = <<>>
    /\ last_poll = <<>>
    /\ counted = {}

InitAux ==
    /\ InitLedgerVars
    /\ InitShellVars
    /\ InitCodecVars
    /\ InitReadVars
    /\ InitConnVars
    /\ InitFindVars

check_reader ==
    /\ UNCHANGED auxVars
    /\ \E found \in BOOLEAN : reader' = found
    /\ UNCHANGED <<pc, conn_open, last_status, loopVars, scanVars, xferVars, copyVars>>
    /\ UNCHANGED writeVars

\* the clock moves while a worker runs
Tick ==
    /\ UNCHANGED auxVars
    /\ pc # "idle"
    /\ since_activity' = IF pc \in ScanPcs THEN Advance(since_activity, scan_timeout)
                         ELSE since_activity
    /\ since_new_tag' = IF pc \in ScanPcs THEN Advance(since_new_tag, scan_timeout)
                        ELSE since_new_tag
    /\ rs_elapsed' = IF pc \in RsPcs THEN Advance(rs_elapsed, read_timeout)
                     ELSE rs_elapsed
    /\ UNCHANGED <<pc, devVars, loopVars, scanning, polls, new_tag_log, clean,
                   xferVars, copying, copies_made, source_tag_data,
                   source_tag_url, source_tag_uid, retry, write_calls,
                   stop_requested>>
    /\ UNCHANGED writeVars

\* toggle_scanning(True): start the scan thread; scan_loop initialises its locals
toggle_scanning_start ==
    /\ UNCHANGED auxVars
    /\ pc = "idle"
    /\ ~scanning
    /\ scanning' = TRUE
    /\ pc' = "scan_top"
    /\ last_uid' = None
    /\ uid' = None
    /\ since_activity' = 0
    /\ since_new_tag' = 0
    /\ polls' = <<>>
    /\ new_tag_log' = <<>>
    /\ clean' = TRUE
    /\ iter_error' = FALSE
    /\ UNCHANGED <<devVars, xferVars, copyVars>>
    /\ UNCHANGED writeVars

\* toggle_scanning(False): the stop request
toggle_scanning_stop ==
    /\ UNCHANGED auxVars
    /\ scanning
    /\ scanning' = FALSE
    /\ UNCHANGED <<pc, devVars, loopVars, since_activity, since_new_tag, polls,
                   new_tag_log, clean, xferVars, copyVars>>
    /\ UNCHANGED writeVars

\* while self.scanning: timeout check, then "if self.nfc_reader.reader"
scan_top ==
    /\ UNCHANGED auxVars
    /\ pc = "scan_top"
    /\ iter_error' = FALSE
    /\ IF ~scanning
       THEN /\ pc' = "idle"
            /\ UNCHANGED <<scanning, last_status>>
       ELSE IF since_activity > scan_timeout
       THEN /\ scanning' = FALSE
            /\ last_status' = "timed_out"
            /\ pc' = "idle"
       ELSE /\ pc' = IF reader THEN "scan_connect" ELSE "scan_sleep"
            /\ UNCHANGED <<scanning, last_status>>
    /\ UNCHANGED <<reader, conn_open, last_uid, uid, since_activity,
                   since_new_tag, polls, new_tag_log, clean, xferVars, copyVars>>
    /\ UNCHANGED writeVars

\* connection, connected = connect_with_retry(); not connected: sleep, continue
scan_connect ==
    /\ UNCHANGED auxVars
    /\ pc = "scan_connect"
    /\ \E connected \in BOOLEAN :
         IF connected /\ reader
         THEN /\ conn_open' = TRUE
              /\ pc' = "scan_get_uid"
              /\ UNCHANGED <<clean, iter_error>>
         ELSE /\ pc' = "scan_top"
              /\ clean' = FALSE
              /\ iter_error' = TRUE
              /\ UNCHANGED conn_open
    /\ UNCHANGED <<reader, last_status, last_uid, uid, scanning, since_activity,
                   since_new_tag, polls, new_tag_log, xferVars, copyVars>>
    /\ UNCHANGED writeVars

\* uid = get_tag_uid(connection): the UID, or None on bad status or exception
scan_get_uid ==
    /\ UNCHANGED auxVars
    /\ pc = "scan_get_uid"
    /\ \E u \in UIDS \cup {None} :
         /\ uid' = u
         /\ IF u # None
            THEN /\ pc' = "scan_present"
                 /\ UNCHANGED <<clean, iter_error>>
            ELSE /\ pc' = "scan_disconnect"
                 /\ clean' = FALSE
                 /\ iter_error' = TRUE
    /\ UNCHANGED <<devVars, last_uid, scanning, since_activity, since_new_tag,
                   polls, new_tag_log, xferVars, copyVars>>
    /\ UNCHANGED writeVars

\* "if uid:" block up to last_activity_time = time.time(); the UI calls made
\* from the worker thread may raise into the outer except
scan_present ==
    /\ UNCHANGED auxVars
    /\ pc = "scan_present"
    /\ \E raises \in BOOLEAN :
         IF raises
         THEN /\ pc' = "scan_except"
              /\ clean' = FALSE
              /\ iter_error' = TRUE
              /\ UNCHANGED <<last_status, since_activity, polls>>
         ELSE /\ last_status' = "tag_ready"
              /\ since_activity' = 0
              /\ polls' = IF Len(polls) < MaxPolls THEN Append(polls, uid) ELSE polls
              /\ clean' = (clean /\ Len(polls) < MaxPolls)
              /\ pc' = "scan_dedup"
              /\ UNCHANGED iter_error
    /\ UNCHANGED <<reader, conn_open, last_uid, uid, scanning, since_new_tag,
                   new_tag_log, xferVars, copyVars>>
    /\ UNCHANGED writeVars

\* scan_dedup without the comparison with last_uid: every poll is a new tag
scan_dedup_every_poll ==
    /\ UNCHANGED auxVars
    /\ pc = "scan_dedup"
    /\ last_uid' = uid
    /\ since_new_tag' = 0
    /\ new_tag_log' = IF clean THEN Append(new_tag_log, uid) ELSE new_tag_log
    /\ pc' = "scan_read"
    /\ UNCHANGED <<devVars, uid, iter_error, scanning, since_activity, polls,
                   clean, xferVars, copyVars>>
    /\ UNCHANGED writeVars

\* scan_dedup that processes a new tag without remembering its UID
scan_dedup_keeps_last_uid ==
    /\ UNCHANGED auxVars
    /\ pc = "scan_dedup"
    /\ IF uid # last_uid
       THEN /\ since_new_tag' = 0
            /\ new_tag_log' = IF clean THEN Append(new_tag_log, uid) ELSE new_tag_log
            /\ pc' = "scan_read"
            /\ UNCHANGED last_uid
       ELSE /\ pc' = "scan_disconnect"
            /\ UNCHANGED <<last_uid, since_new_tag, new_tag_log>>
    /\ UNCHANGED <<devVars, uid, iter_error, scanning, since_activity, polls,
                   clean, xferVars, copyVars>>
    /\ UNCHANGED writeVars

\* "if uid != last_uid": the new-tag event (log "New tag detected")
scan_dedup ==
    /\ UNCHANGED auxVars
    /\ pc = "scan_dedup"
    /\ IF uid # last_uid
       THEN /\ last_uid' = uid
            /\ since_new_tag' = 0
            /\ new_tag_log' = IF clean THEN Append(new_tag_log, uid) ELSE new_tag_log
            /\ pc' = "scan_read"
       ELSE /\ pc' = "scan_disconnect"
            /\ UNCHANGED <<last_uid, since_new_tag, new_tag_log>>
    /\ UNCHANGED <<devVars, uid, iter_error, scanning, since_activity, polls,
                   clean, xferVars, copyVars>>
    /\ UNCHANGED writeVars

\* read_tag_memory + process_ndef_content inside their try/except
scan_read ==
    /\ UNCHANGED auxVars
    /\ pc = "scan_read"
    /\ \E outcome \in {"data", "empty", "raise"} :
         /\ clean' = (clean /\ outcome = "data")
         /\ iter_error' = (outcome # "data")
    /\ pc' = "scan_disconnect"
    /\ UNCHANGED <<devVars, last_uid, uid, scanning, since_activity,
                   since_new_tag, polls, new_tag_log, xferVars, copyVars>>
    /\ UNCHANGED writeVars

\* connection.disconnect(): it may raise when the card has gone
scan_disconnect ==
    /\ UNCHANGED auxVars
    /\ pc = "scan_disconnect"
    /\ conn_open' = FALSE
    /\ \E raises \in BOOLEAN :
         IF raises
         THEN /\ pc' = "scan_except"
              /\ clean' = FALSE
              /\ iter_error' = TRUE
         ELSE /\ pc' = "scan_sleep"
              /\ UNCHANGED <<clean, iter_error>>
    /\ UNCHANGED <<reader, last_status, last_uid, uid, scanning, since_activity,
                   since_new_tag, polls, new_tag_log, xferVars, copyVars>>
    /\ UNCHANGED writeVars

\* except Exception: last_uid = None  # Reset UID on error
scan_except ==
    /\ UNCHANGED auxVars
    /\ pc = "scan_except"
    /\ last_uid' = None
    /\ pc' = "scan_sleep"
    /\ UNCHANGED <<devVars, uid, iter_error, scanVars, xferVars, copyVars>>
    /\ UNCHANGED writeVars

\* time.sleep(0.2)  # Delay between scans
scan_sleep ==
    /\ UNCHANGED auxVars
    /\ pc = "scan_sleep"
    /\ pc' = "scan_top"
    /\ UNCHANGED <<devVars, loopVars, scanVars, xferVars, copyVars>>
    /\ UNCHANGED writeVars

InitScan == pc = "idle" /\ InitDev /\ InitLoopVars /\ InitScanVars /\ InitXferVars /\ InitCopyVars /\ InitWriteVars /\ InitAux

NextScan ==
    \/ check_reader
    \/ Tick
    \/ toggle_scanning_start
    \/ toggle_scanning_stop
    \/ scan_top
    \/ scan_connect
    \/ scan_get_uid
    \/ scan_present
    \/ scan_dedup
    \/ scan_read
    \/ scan_disconnect
    \/ scan_except
    \/ scan_sleep

SpecScan == InitScan /\ [][NextScan]_vars

\* ============================================================== batch write
\* write_tag -> batch_write_tags(reader, url, quantity, lock): the locals and
\* the "Ready to write URL" status
batch_write_tags_call(Q) ==
    /\ UNCHANGED <<otherAux, tag_locked, readback>>
    /\ last_poll' = <<>>
    /\ counted' = {}
    /\ pc = "idle"
    /\ \E q \in Q : quantity' = q
    /\ tags_written' = 0
    /\ last_uid' = None
    /\ uid' = None
    /\ iter_error' = FALSE
    /\ progress' = <<>>
    /\ success' = FALSE
    /\ result' = None
    /\ last_status' = "ready_write"
    /\ pc' = "bw_top"
    /\ UNCHANGED <<reader, conn_open, scanVars, copyVars>>
    /\ UNCHANGED writeVars

\* the call the write tab makes: its quantity spin box ranges from 1
batch_write_tags == batch_write_tags_call(1..MaxQuantity)

\* while tags_written < quantity: ...; after the loop: return tags_written > 0
bw_top ==
    /\ UNCHANGED <<otherAux, tag_locked, readback>>
    /\ pc = "bw_top"
    /\ iter_error' = FALSE
    /\ IF tags_written < quantity
       THEN /\ pc' = "bw_connect"
            /\ UNCHANGED <<result, last_poll, counted>>
       ELSE /\ pc' = "idle"
            /\ result' = Ret(tags_written > 0)
            /\ last_poll' = <<>>
            /\ counted' = {}
    /\ UNCHANGED <<devVars, last_uid, uid, scanVars, tags_written, quantity,
                   progress, success, copyVars>>
    /\ UNCHANGED writeVars

\* connection, connected = reader.connect_with_retry(); not connected: continue
bw_connect ==
    /\ UNCHANGED auxVars
    /\ pc = "bw_connect"
    /\ \E connected \in BOOLEAN :
         IF connected /\ reader
         THEN /\ conn_open' = TRUE
              /\ pc' = "bw_get_uid"
              /\ UNCHANGED iter_error
         ELSE /\ pc' = "bw_top"
              /\ iter_error' = TRUE
              /\ UNCHANGED conn_open
    /\ UNCHANGED <<reader, last_status, last_uid, uid, scanVars, xferVars, copyVars>>
    /\ UNCHANGED writeVars

\* getReader(), then transmit(GET_UID): a transmit error disconnects and
\* continues; a bad status falls through to the disconnect; any other
\* exception of the iteration goes to the loop's except
bw_get_uid ==
    /\ UNCHANGED auxVars
    /\ pc = "bw_get_uid"
    /\ \E r \in UIDS \cup {"bad_status", "transmit_error", "raise"} :
         CASE r = "raise" ->
                /\ pc' = "bw_except"
                /\ iter_error' = TRUE
                /\ UNCHANGED <<uid, conn_open>>
           [] r = "transmit_error" ->
                /\ conn_open' = FALSE
                /\ pc' = "bw_top"
                /\ iter_error' = TRUE
                /\ UNCHANGED uid
           [] r = "bad_status" ->
                /\ pc' = "bw_disconnect"
                /\ iter_error' = TRUE
                /\ UNCHANGED <<uid, conn_open>>
           [] OTHER ->
                /\ uid' = r
                /\ pc' = "bw_dedup"
                /\ UNCHANGED <<iter_error, conn_open>>
    /\ UNCHANGED <<reader, last_status, last_uid, scanVars, xferVars, copyVars>>
    /\ UNCHANGED writeVars

\* bw_dedup without the comparison with last_uid
bw_dedup_always_writes ==
    /\ UNCHANGED <<otherAux, tag_locked, readback, counted>>
    /\ pc = "bw_dedup"
    /\ last_poll' = <<uid, TRUE>>
    /\ last_uid' = uid
    /\ last_status' = "writing"
    /\ pc' = "bw_write"
    /\ UNCHANGED <<reader, conn_open, uid, iter_error, scanVars, xferVars, copyVars>>
    /\ UNCHANGED writeVars

\* "if uid != last_uid:  # Only write to new tags"
bw_dedup ==
    /\ UNCHANGED <<otherAux, tag_locked, readback, counted>>
    /\ pc = "bw_dedup"
    /\ last_poll' = <<uid, uid # last_uid>>
    /\ IF uid # last_uid
       THEN /\ last_uid' = uid
            /\ last_status' = "writing"
            /\ pc' = "bw_write"
       ELSE /\ pc' = "bw_disconnect"
            /\ UNCHANGED <<last_uid, last_status>>
    /\ UNCHANGED <<reader, conn_open, uid, iter_error, scanVars, xferVars, copyVars>>
    /\ UNCHANGED writeVars

\* bw_write giving up the batch on a failed write
bw_write_abort_on_failure ==
    /\ UNCHANGED <<otherAux, tag_locked, readback>>
    /\ pc = "bw_write"
    /\ \E outcome \in {"ok", "fail", "raise"} :
         IF outcome = "ok"
         THEN /\ success' = TRUE
              /\ tags_written' = tags_written + 1
              /\ progress' = <<tags_written + 1, quantity>>
              /\ IF tags_written + 1 = quantity
                 THEN /\ last_status' = "success_all"
                      /\ result' = Ret(TRUE)
                      /\ pc' = "idle"
                      /\ last_poll' = <<>>
                      /\ counted' = {}
                 ELSE /\ last_status' = "wrote_next"
                      /\ pc' = "bw_disconnect"
                      /\ counted' = counted \cup {uid}
                      /\ UNCHANGED <<result, last_poll>>
              /\ UNCHANGED iter_error
         ELSE /\ success' = FALSE
              /\ last_status' = "error"
              /\ iter_error' = TRUE
              /\ result' = Ret(FALSE)
              /\ pc' = "idle"
              /\ last_poll' = <<>>
              /\ counted' = {}
              /\ UNCHANGED <<tags_written, progress>>
    /\ UNCHANGED <<reader, conn_open, last_uid, uid, scanVars, quantity, copyVars>>
    /\ UNCHANGED writeVars

\* write_url_to_tag inside its try/except, then the success / failure branch;
\* the last tag of the batch returns True from inside the loop
bw_write ==
    /\ UNCHANGED <<otherAux, tag_locked, readback>>
    /\ pc = "bw_write"
    /\ \E outcome \in {"ok", "fail", "raise"} :
         IF outcome = "ok"
         THEN /\ success' = TRUE
              /\ tags_written' = tags_written + 1
              /\ progress' = <<tags_written + 1, quantity>>
              /\ IF tags_written + 1 = quantity
                 THEN /\ last_status' = "success_all"
                      /\ result' = Ret(TRUE)
                      /\ pc' = "idle"
                      /\ last_poll' = <<>>
                      /\ counted' = {}
                 ELSE /\ last_status' = "wrote_next"
                      /\ pc' = "bw_disconnect"
                      /\ counted' = counted \cup {uid}
                      /\ UNCHANGED <<result, last_poll>>
              /\ UNCHANGED iter_error
         ELSE /\ success' = FALSE
              /\ last_status' = "error"
              /\ iter_error' = TRUE
              /\ pc' = "bw_disconnect"
              /\ UNCHANGED <<tags_written, progress, result, last_poll, counted>>
    /\ UNCHANGED <<reader, conn_open, last_uid, uid, scanVars, quantity, copyVars>>
    /\ UNCHANGED writeVars

\* "Always try to disconnect, but don't crash if it fails"
bw_disconnect ==
    /\ UNCHANGED auxVars
    /\ pc = "bw_disconnect"
    /\ conn_open' = FALSE
    /\ pc' = "bw_top"
    /\ UNCHANGED <<reader, last_status, loopVars, scanVars, xferVars, copyVars>>
    /\ UNCHANGED writeVars

\* except Exception as e: status unless a common disconnection message; sleep
bw_except ==
    /\ UNCHANGED auxVars
    /\ pc = "bw_except"
    /\ \E reported \in BOOLEAN :
         last_status' = IF reported THEN "error" ELSE last_status
    /\ pc' = "bw_top"
    /\ UNCHANGED <<reader, conn_open, loopVars, scanVars, xferVars, copyVars>>
    /\ UNCHANGED writeVars

InitBatch == pc = "idle" /\ InitDev /\ InitLoopVars /\ InitScanVars /\ InitXferVars /\ InitCopyVars /\ InitWriteVars /\ InitAux

NextBatch ==
    \/ check_reader
    \/ batch_write_tags
    \/ bw_top
    \/ bw_connect
    \/ bw_get_uid
    \/ bw_dedup
    \/ bw_write
    \/ bw_disconnect
    \/ bw_except

SpecBatch == InitBatch /\ [][NextBatch]_vars

\* ========================================================= read source tag
\* NFCCopier.read_source_tag: clear the stored source, announce, start the clock
read_source_tag ==
    /\ UNCHANGED auxVars
    /\ pc = "idle"
    /\ reader
    /\ source_tag_data' = None
    /\ source_tag_url' = None
    /\ source_tag_uid' = None
    /\ last_status' = "present_source"
    /\ last_uid' = None
    /\ uid' = None
    /\ iter_error' = FALSE
    /\ rs_elapsed' = 0
    /\ result' = None
    /\ stop_requested' = FALSE
    /\ pc' = "rs_top"
    /\ UNCHANGED <<reader, conn_open, scanVars, tags_written, quantity, progress,
                   success, copying, copies_made, retry, write_calls>>
    /\ UNCHANGED writeVars

\* while time.time() < timeout_time: ...; after the loop: the timeout status
rs_top ==
    /\ UNCHANGED auxVars
    /\ pc = "rs_top"
    /\ iter_error' = FALSE
    /\ IF rs_elapsed < read_timeout
       THEN /\ pc' = "rs_connect"
            /\ UNCHANGED <<last_status, result>>
       ELSE /\ last_status' = "timeout_no_source"
            /\ result' = Ret(FALSE)
            /\ pc' = "idle"
    /\ UNCHANGED <<reader, conn_open, last_uid, uid, scanVars, tags_written,
                   quantity, progress, success, copyVars>>
    /\ UNCHANGED writeVars

\* connection, connected = self.reader.connect_with_retry()
rs_connect ==
    /\ UNCHANGED auxVars
    /\ pc = "rs_connect"
    /\ \E connected \in BOOLEAN :
         IF connected /\ reader
         THEN /\ conn_open' = TRUE
              /\ pc' = "rs_get_uid"
              /\ UNCHANGED iter_error
         ELSE /\ pc' = "rs_top"
              /\ iter_error' = TRUE
              /\ UNCHANGED conn_open
    /\ UNCHANGED <<reader, last_status, last_uid, uid, scanVars, xferVars, copyVars>>
    /\ UNCHANGED writeVars

\* the GET_UID retry loop: the UID of the first attempt with sw1 = 0x90, or
\* None after max_retries attempts; no uid: disconnect, sleep, continue
rs_get_uid ==
    /\ UNCHANGED auxVars
    /\ pc = "rs_get_uid"
    /\ \E u \in UIDS \cup {None} :
         /\ uid' = u
         /\ IF u # None
            THEN /\ pc' = "rs_detect"
                 /\ UNCHANGED iter_error
            ELSE /\ pc' = "rs_disconnect"
                 /\ iter_error' = TRUE
    /\ UNCHANGED <<devVars, last_uid, scanVars, xferVars, copyVars>>
    /\ UNCHANGED writeVars

\* status "Tag Detected - Reading..."; "if uid != last_uid: last_uid = uid"
rs_detect ==
    /\ UNCHANGED auxVars
    /\ pc = "rs_detect"
    /\ last_status' = "tag_detected"
    /\ IF uid # last_uid
       THEN /\ last_uid' = uid
            /\ pc' = "rs_read"
       ELSE /\ pc' = "rs_disconnect"
            /\ UNCHANGED last_uid
    /\ UNCHANGED <<reader, conn_open, uid, iter_error, scanVars, xferVars, copyVars>>
    /\ UNCHANGED writeVars

\* the read_tag_memory_full retry loop, _validate_tag_data, extract_url_from_data:
\* a valid buffer is stored with the UID and, unless the disconnect raises, the
\* operation returns True
rs_read ==
    /\ UNCHANGED auxVars
    /\ pc = "rs_read"
    /\ \E outcome \in {"valid_url", "valid_no_url", "invalid", "no_data"} :
         IF outcome \in {"valid_url", "valid_no_url"}
         THEN /\ source_tag_data' = "data"
              /\ source_tag_uid' = uid
              /\ source_tag_url' = IF outcome = "valid_url" THEN "url" ELSE None
              /\ last_status' = "source_read"
              /\ conn_open' = FALSE
              /\ \E raises \in BOOLEAN :
                   IF raises
                   THEN /\ pc' = "rs_except"
                        /\ iter_error' = TRUE
                        /\ UNCHANGED result
                   ELSE /\ pc' = "idle"
                        /\ result' = Ret(TRUE)
                        /\ UNCHANGED iter_error
         ELSE /\ last_status' = IF outcome = "invalid" THEN "invalid_format"
                                ELSE "read_failed"
              /\ iter_error' = TRUE
              /\ pc' = "rs_disconnect"
              /\ UNCHANGED <<source_tag_data, source_tag_uid, source_tag_url,
                             conn_open, result>>
    /\ UNCHANGED <<reader, last_uid, uid, scanVars, tags_written, quantity,
                   progress, success, copying, copies_made, rs_elapsed, retry,
                   write_calls, stop_requested>>
    /\ UNCHANGED writeVars

\* connection.disconnect() at the end of the iteration; it may raise
rs_disconnect ==
    /\ UNCHANGED auxVars
    /\ pc = "rs_disconnect"
    /\ conn_open' = FALSE
    /\ \E raises \in BOOLEAN :
         IF raises
         THEN /\ pc' = "rs_except"
              /\ iter_error' = TRUE
         ELSE /\ pc' = "rs_sleep"
              /\ UNCHANGED iter_error
    /\ UNCHANGED <<reader, last_status, last_uid, uid, scanVars, xferVars, copyVars>>
    /\ UNCHANGED writeVars

\* except Exception: last_uid = None  # Reset UID on error
rs_except ==
    /\ UNCHANGED auxVars
    /\ pc = "rs_except"
    /\ last_uid' = None
    /\ pc' = "rs_sleep"
    /\ UNCHANGED <<devVars, uid, iter_error, scanVars, xferVars, copyVars>>
    /\ UNCHANGED writeVars

\* time.sleep(0.2)  # Delay between scans
rs_sleep ==
    /\ UNCHANGED auxVars
    /\ pc = "rs_sleep"
    /\ pc' = "rs_top"
    /\ UNCHANGED <<devVars, loopVars, scanVars, xferVars, copyVars>>
    /\ UNCHANGED writeVars

\* ============================================================ copy to tags
\* NFCCopier.stop_copy_operation
stop_copy_operation ==
    /\ UNCHANGED auxVars
    /\ copying' = FALSE
    /\ stop_requested' = (stop_requested \/ pc \in RsPcs \cup CpPcs)
    /\ UNCHANGED <<pc, devVars, loopVars, scanVars, xferVars, copies_made,
                   source_tag_data, source_tag_url, source_tag_uid, rs_elapsed,
                   retry, write_calls>>
    /\ UNCHANGED writeVars

\* NFCCopier.reset
reset ==
    /\ UNCHANGED auxVars
    /\ source_tag_data' = None
    /\ source_tag_url' = None
    /\ source_tag_uid' = None
    /\ copying' = FALSE
    /\ copies_made' = 0
    /\ UNCHANGED <<pc, devVars, loopVars, scanVars, xferVars, rs_elapsed, retry,
                   write_calls, stop_requested>>
    /\ UNCHANGED writeVars

\* NFCCopier.copy_to_new_tags up to the loop: the two early returns, the
\* missing-URL return, else the locals of the loop
copy_to_new_tags_call(Q, L) ==
    /\ UNCHANGED auxVars
    /\ pc = "idle"
    /\ \E q \in Q, l \in L :
         IF source_tag_data = None \/ ~reader
         THEN /\ result' = Ret(FALSE)
              /\ UNCHANGED <<pc, last_status, loopVars, tags_written, quantity,
                             copying, copies_made, write_calls, stop_requested,
                             progress, success, retry, lock>>
         ELSE IF source_tag_url = None
         THEN /\ copying' = FALSE
              /\ copies_made' = 0
              /\ last_status' = "error_no_url"
              /\ result' = Ret(FALSE)
              /\ UNCHANGED <<pc, loopVars, tags_written, quantity, write_calls,
                             stop_requested, progress, success, retry, lock>>
         ELSE /\ copying' = TRUE
              /\ copies_made' = 0
              /\ last_status' = "ready_copy"
              /\ quantity' = q
              /\ tags_written' = 0
              /\ last_uid' = None
              /\ uid' = None
              /\ iter_error' = FALSE
              /\ progress' = <<>>
              /\ success' = FALSE
              /\ retry' = 0
              /\ result' = None
              /\ write_calls' = {}
              /\ stop_requested' = FALSE
              /\ lock' = l
              /\ pc' = "cp_top"
    /\ UNCHANGED <<reader, conn_open, scanVars, source_tag_data, source_tag_url,
                   source_tag_uid, rs_elapsed>>
    /\ UNCHANGED <<n_pages, w_page, w_retry, w_ok, w_message, trace, faults>>

\* the call the copy tab makes: its copies spin box ranges from 1; the lock
\* argument is left as it is
copy_to_new_tags == copy_to_new_tags_call(1..MaxQuantity, {lock})

\* cp_top with the loop condition "tags_written < quantity" alone
cp_top_ignores_stop ==
    /\ UNCHANGED auxVars
    /\ pc = "cp_top"
    /\ iter_error' = FALSE
    /\ IF tags_written < quantity
       THEN /\ pc' = "cp_connect"
            /\ UNCHANGED <<copying, result>>
       ELSE /\ copying' = FALSE
            /\ result' = Ret(tags_written = quantity)
            /\ pc' = "idle"
    /\ UNCHANGED <<devVars, last_uid, uid, scanVars, tags_written, quantity,
                   progress, success, copies_made, source_tag_data,
                   source_tag_url, source_tag_uid, rs_elapsed, retry, write_calls,
                   stop_requested>>
    /\ UNCHANGED writeVars

\* while tags_written < quantity and self.copying: ...; after the loop:
\* self.copying = False; return tags_written == quantity
cp_top ==
    /\ UNCHANGED auxVars
    /\ pc = "cp_top"
    /\ iter_error' = FALSE
    /\ IF tags_written < quantity /\ copying
       THEN /\ pc' = "cp_connect"
            /\ UNCHANGED <<copying, result>>
       ELSE /\ copying' = FALSE
            /\ result' = Ret(tags_written = quantity)
            /\ pc' = "idle"
    /\ UNCHANGED <<devVars, last_uid, uid, scanVars, tags_written, quantity,
                   progress, success, copies_made, source_tag_data,
                   source_tag_url, source_tag_uid, rs_elapsed, retry, write_calls,
                   stop_requested>>
    /\ UNCHANGED writeVars

\* connection, connected = self.reader.connect_with_retry()
cp_connect ==
    /\ UNCHANGED auxVars
    /\ pc = "cp_connect"
    /\ \E connected \in BOOLEAN :
         IF connected /\ reader
         THEN /\ conn_open' = TRUE
              /\ pc' = "cp_get_uid"
              /\ UNCHANGED iter_error
         ELSE /\ pc' = "cp_top"
              /\ iter_error' = TRUE
              /\ UNCHANGED conn_open
    /\ UNCHANGED <<reader, last_status, last_uid, uid, scanVars, xferVars, copyVars>>
    /\ UNCHANGED writeVars

\* the GET_UID retry loop; no uid: disconnect, sleep, continue
cp_get_uid ==
    /\ UNCHANGED auxVars
    /\ pc = "cp_get_uid"
    /\ \E u \in UIDS \cup {None} :
         /\ uid' = u
         /\ IF u # None
            THEN /\ pc' = "cp_source_guard"
                 /\ UNCHANGED iter_error
            ELSE /\ pc' = "cp_disconnect"
                 /\ iter_error' = TRUE
    /\ UNCHANGED <<devVars, last_uid, scanVars, xferVars, copyVars>>
    /\ UNCHANGED writeVars

\* cp_source_guard without the comparison with source_tag_uid
cp_source_guard_missing ==
    /\ UNCHANGED auxVars
    /\ pc = "cp_source_guard"
    /\ pc' = "cp_dedup"
    /\ UNCHANGED <<devVars, loopVars, scanVars, xferVars, copyVars>>
    /\ UNCHANGED writeVars

\* "Skip if it's the same as the source tag"
cp_source_guard ==
    /\ UNCHANGED auxVars
    /\ pc = "cp_source_guard"
    /\ IF uid = source_tag_uid
       THEN /\ last_status' = "use_different_tag"
            /\ pc' = "cp_disconnect"
       ELSE /\ pc' = "cp_dedup"
            /\ UNCHANGED last_status
    /\ UNCHANGED <<reader, conn_open, loopVars, scanVars, xferVars, copyVars>>
    /\ UNCHANGED writeVars

\* "Only write to new tags": if uid != last_uid: last_uid = uid; status
cp_dedup ==
    /\ UNCHANGED auxVars
    /\ pc = "cp_dedup"
    /\ IF uid # last_uid
       THEN /\ last_uid' = uid
            /\ last_status' = "writing"
            /\ retry' = 0
            /\ pc' = "cp_write"
       ELSE /\ pc' = "cp_disconnect"
            /\ UNCHANGED <<last_uid, last_status, retry>>
    /\ UNCHANGED <<reader, conn_open, uid, iter_error, scanVars, xferVars,
                   copying, copies_made, source_tag_data, source_tag_url,
                   source_tag_uid, rs_elapsed, write_calls, stop_requested>>
    /\ UNCHANGED writeVars

\* whether write_url_to_tag sent LOCK_CARD: a call that returned True sent it
\* exactly when lock was asked for (the lock stage follows the page writes and
\* the verification reads); a call that failed stopped before the lock stage
\* or in it
LockSent(outcome, l) == IF outcome = "ok" THEN {l} ELSE IF l THEN BOOLEAN ELSE {FALSE}

\* one attempt of the write retry loop: write_url_to_tag(connection, url, lock)
cp_write ==
    /\ UNCHANGED <<otherAux, readback, last_poll, counted>>
    /\ pc = "cp_write"
    /\ write_calls' = write_calls \cup {uid}
    /\ \E outcome \in {"ok", "fail", "raise"} :
         /\ \E sent \in LockSent(outcome, lock) : tag_locked' = (tag_locked \/ sent)
         /\ IF outcome = "ok"
            THEN /\ success' = TRUE
                 /\ retry' = 0
                 /\ pc' = "cp_verify"
                 /\ UNCHANGED <<last_status, iter_error>>
            ELSE IF retry + 1 < max_retries
            THEN /\ retry' = retry + 1
                 /\ UNCHANGED <<pc, success, last_status, iter_error>>
            ELSE /\ success' = FALSE
                 /\ retry' = 0
                 /\ last_status' = "error"
                 /\ iter_error' = TRUE
                 /\ pc' = "cp_disconnect"
    /\ UNCHANGED <<reader, conn_open, last_uid, uid, scanVars, tags_written,
                   quantity, progress, result, copying, copies_made,
                   source_tag_data, source_tag_url, source_tag_uid, rs_elapsed,
                   stop_requested>>
    /\ UNCHANGED writeVars

\* the local url of copy_to_new_tags: self.source_tag_url when the call
\* began, which is the one address read_source_tag stores in this model
ExpectedUrl == "url"

\* what the re-read of _verify_tag_write decodes to: nothing (the memory read
\* failed, raised or held no record), the address written, a variant of it in
\* scheme or trailing slashes, or another text
ReadBacks == {<<>>, <<"url">>, <<"url/">>, <<"https://url">>, <<"http://url//">>,
              <<"urn">>, <<"curl">>}

\* s.rstrip("/")
RECURSIVE RStrip(_)
RStrip(s) ==
    IF Len(s) > 0 /\ Char(s, Len(s)) = "/" THEN RStrip(SubSeq(s, 1, Len(s) - 1)) ELSE s

\* s.replace("http://", "").replace("https://", "")
StripProtocol(s) == RemoveAll(RemoveAll(s, "http://"), "https://")

\* a comparison that accepts whatever was read back
verify_tag_write_any(rb, expected_url) == TRUE

\* _verify_tag_write(connection, expected_url), rb the decoded re-read
verify_tag_write(rb, expected_url) ==
    /\ rb # <<>>
    /\ rb[1] # ""
    /\ \/ rb[1] = expected_url
       \/ /\ expected_url # ""
          /\ RStrip(StripProtocol(rb[1])) = RStrip(StripProtocol(expected_url))

\* cp_verify that counts a verified tag without the progress callback
cp_verify_no_progress ==
    /\ UNCHANGED <<otherAux, tag_locked, last_poll, counted>>
    /\ pc = "cp_verify"
    /\ \E rb \in ReadBacks :
         /\ readback' = rb
         /\ IF verify_tag_write(rb, ExpectedUrl)
            THEN /\ tags_written' = tags_written + 1
                 /\ copies_made' = tags_written + 1
                 /\ last_status' = IF tags_written + 1 = quantity THEN "success_all"
                                   ELSE "wrote_next"
                 /\ UNCHANGED <<iter_error, progress>>
            ELSE /\ last_status' = "verify_failed"
                 /\ iter_error' = TRUE
                 /\ UNCHANGED <<tags_written, copies_made, progress>>
    /\ pc' = "cp_disconnect"
    /\ UNCHANGED <<reader, conn_open, last_uid, uid, scanVars, quantity, success,
                   result, copying, source_tag_data, source_tag_url,
                   source_tag_uid, rs_elapsed, retry, write_calls, stop_requested>>
    /\ UNCHANGED writeVars

\* _verify_tag_write, then the counters and callbacks
cp_verify ==
    /\ UNCHANGED <<otherAux, tag_locked, last_poll, counted>>
    /\ pc = "cp_verify"
    /\ \E rb \in ReadBacks :
         /\ readback' = rb
         /\ IF verify_tag_write(rb, ExpectedUrl)
            THEN /\ tags_written' = tags_written + 1
                 /\ copies_made' = tags_written + 1
                 /\ progress' = <<tags_written + 1, quantity>>
                 /\ last_status' = IF tags_written + 1 = quantity THEN "success_all"
                                   ELSE "wrote_next"
                 /\ UNCHANGED iter_error
            ELSE /\ last_status' = "verify_failed"
                 /\ iter_error' = TRUE
                 /\ UNCHANGED <<tags_written, copies_made, progress>>
    /\ pc' = "cp_disconnect"
    /\ UNCHANGED <<reader, conn_open, last_uid, uid, scanVars, quantity, success,
                   result, copying, source_tag_data, source_tag_url,
                   source_tag_uid, rs_elapsed, retry, write_calls, stop_requested>>
    /\ UNCHANGED writeVars

\* connection.disconnect() (three sites), then the sleep; it may raise
cp_disconnect ==
    /\ UNCHANGED <<otherAux, last_poll, counted>>
    /\ tag_locked' = FALSE
    /\ readback' = <<>>
    /\ pc = "cp_disconnect"
    /\ conn_open' = FALSE
    /\ \E raises \in BOOLEAN :
         IF raises
         THEN /\ pc' = "cp_except"
              /\ iter_error' = TRUE
         ELSE /\ pc' = "cp_top"
              /\ UNCHANGED iter_error
    /\ UNCHANGED <<reader, last_status, last_uid, uid, scanVars, xferVars, copyVars>>
    /\ UNCHANGED writeVars

\* except Exception as e: status unless a common disconnection message
cp_except ==
    /\ UNCHANGED auxVars
    /\ pc = "cp_except"
    /\ \E reported \in BOOLEAN :
         last_status' = IF reported THEN "error" ELSE last_status
    /\ pc' = "cp_top"
    /\ UNCHANGED <<reader, conn_open, loopVars, scanVars, xferVars, copyVars>>
    /\ UNCHANGED writeVars

InitCopy == pc = "idle" /\ InitDev /\ InitLoopVars /\ InitScanVars /\ InitXferVars /\ InitCopyVars /\ InitWriteVars /\ InitAux

NextCopy ==
    \/ check_reader
    \/ Tick
    \/ read_source_tag
    \/ rs_top
    \/ rs_connect
    \/ rs_get_uid
    \/ rs_detect
    \/ rs_read
    \/ rs_disconnect
    \/ rs_except
    \/ rs_sleep
    \/ stop_copy_operation
    \/ reset
    \/ copy_to_new_tags
    \/ cp_top
    \/ cp_connect
    \/ cp_get_uid
    \/ cp_source_guard
    \/ cp_dedup
    \/ cp_write
    \/ cp_verify
    \/ cp_disconnect
    \/ cp_except

SpecCopy == InitCopy /\ [][NextCopy]_vars

\* ============================================================ write to tag
\* a transmit returns sw1 = 0x90 ("ok"), another status ("bad"), or raises ("exc")
Outcomes == {"ok", "bad", "exc"}

Sent(cmd, page, o) == [cmd |-> cmd, page |-> page, sw |-> o]

\* range(4, min(8, 4 + (len(ndef_data) + 3) // 4)): last verified page
LastVerifyPage(n) == Min(VerifyEnd, BasePage + n) - 1

\* LastAttempt giving up one attempt early
LastAttempt_one_short(r) == r = write_max_retries - 2

\* "if retry == max_retries - 1: return False, ..." in every retry loop
LastAttempt(r) == r = write_max_retries - 1

\* StatusFails with the status check left out
StatusFails_ignored(o) == FALSE

\* "if sw1 != 0x90: return False, ..." after every retry loop
StatusFails(o) == o = "bad"

\* AfterVerify locking whether or not lock was requested
AfterVerify_always_lock(l) == "w_lock"

\* the stage after the verification reads: "if lock:" ... else return True
AfterVerify(l) == IF l THEN "w_lock" ELSE "idle"

\* the message of a failure return: which stage failed and, for the page
\* writes and the verification reads, "page {page}"
FailureMessage(cmd, page) ==
    IF cmd \in {"WRITE", "READ"} THEN <<cmd, page>> ELSE <<cmd>>

\* one pass of a retry loop "for retry in range(max_retries): try: transmit;
\* break; except: ..." followed by the status check: the command goes on the
\* channel; a raise retries or gives up, a bad status returns False, success
\* moves to okPc / okPage
Transmit(cmd, okPc, okPage) ==
    \E o \in Outcomes :
      /\ o = "exc" => faults < MaxFaults
      /\ faults' = IF o = "exc" THEN faults + 1 ELSE faults
      /\ trace' = Append(trace, Sent(cmd, w_page, o))
      /\ IF o = "exc"
         THEN IF LastAttempt(w_retry)
              THEN /\ w_ok' = Ret(FALSE)
                   /\ w_message' = FailureMessage(cmd, w_page)
                   /\ pc' = "idle"
                   /\ UNCHANGED <<w_retry, w_page>>
              ELSE /\ w_retry' = w_retry + 1
                   /\ UNCHANGED <<pc, w_ok, w_message, w_page>>
         ELSE IF StatusFails(o)
         THEN /\ w_ok' = Ret(FALSE)
              /\ w_message' = FailureMessage(cmd, w_page)
              /\ pc' = "idle"
              /\ UNCHANGED <<w_retry, w_page>>
         ELSE /\ pc' = okPc
              /\ w_page' = okPage
              /\ w_retry' = 0
              /\ w_ok' = IF okPc = "idle" THEN Ret(TRUE) ELSE w_ok
              /\ w_message' = IF okPc = "idle" THEN <<"URL written">> ELSE w_message

\* write_url_to_tag(connection, url, lock): ndef_data = _create_url_ndef(url)
write_url_to_tag ==
    /\ UNCHANGED auxVars
    /\ pc = "idle"
    /\ \E n \in MinPages..MaxPages : n_pages' = n
    /\ \E l \in BOOLEAN : lock' = l
    /\ w_page' = 0
    /\ w_retry' = 0
    /\ w_ok' = None
    /\ w_message' = <<>>
    /\ trace' = <<>>
    /\ faults' = 0
    /\ pc' = "w_get_uid"
    /\ UNCHANGED <<devVars, loopVars, scanVars, xferVars, copyVars>>

\* presence check: transmit(commands['GET_UID'])
w_get_uid ==
    /\ UNCHANGED auxVars
    /\ pc = "w_get_uid"
    /\ Transmit("GET_UID", "w_init", 3)
    /\ UNCHANGED <<n_pages, lock, devVars, loopVars, scanVars, xferVars, copyVars>>

\* Initialize NDEF capability: write [E1 10 06 0F] to page 3
w_init ==
    /\ UNCHANGED auxVars
    /\ pc = "w_init"
    /\ Transmit("INIT", "w_write", BasePage)
    /\ UNCHANGED <<n_pages, lock, devVars, loopVars, scanVars, xferVars, copyVars>>

\* the chunk loop: write page 4 + i // 4, then the next chunk or the verification
w_write ==
    /\ UNCHANGED auxVars
    /\ pc = "w_write"
    /\ IF w_page + 1 < BasePage + n_pages
       THEN Transmit("WRITE", "w_write", w_page + 1)
       ELSE Transmit("WRITE", "w_verify", BasePage)
    /\ UNCHANGED <<n_pages, lock, devVars, loopVars, scanVars, xferVars, copyVars>>

\* read back the first pages, then lock if requested, else return True
w_verify ==
    /\ UNCHANGED auxVars
    /\ pc = "w_verify"
    /\ IF w_page < LastVerifyPage(n_pages)
       THEN Transmit("READ", "w_verify", w_page + 1)
       ELSE Transmit("READ", AfterVerify(lock), 2)
    /\ UNCHANGED <<n_pages, lock, devVars, loopVars, scanVars, xferVars, copyVars>>

\* transmit(commands['LOCK_CARD']): write zeros to page 2; return True
w_lock ==
    /\ UNCHANGED auxVars
    /\ pc = "w_lock"
    /\ Transmit("LOCK", "idle", 2)
    /\ UNCHANGED <<n_pages, lock, devVars, loopVars, scanVars, xferVars, copyVars>>

InitWrite == pc = "idle" /\ InitDev /\ InitLoopVars /\ InitScanVars /\ InitXferVars /\ InitCopyVars /\ InitWriteVars /\ InitAux

NextWrite ==
    \/ write_url_to_tag
    \/ w_get_uid
    \/ w_init
    \/ w_write
    \/ w_verify
    \/ w_lock

SpecWrite == InitWrite /\ [][NextWrite]_vars

\* ==================================================== the shell's workers
\* NFCReaderGUI starts every long-running operation on a thread of its own
\* (threading.Thread(target=..., daemon=True).start()).  A thread is at
\* "start" (before its loop), at "top" (evaluating the loop condition) or in
\* the "body" (an iteration: connect_with_retry and the device commands).
WorkerKinds == {"scan", "batch", "read_source", "copy"}

Live == {t \in 1..MaxThreads : threads[t].kind # "none"}

\* threading.Thread(...).start(): the new thread takes the first free slot
Spawn(kind) ==
    /\ Live # 1..MaxThreads
    /\ LET t == CHOOSE u \in 1..MaxThreads :
                   /\ threads[u].kind = "none"
                   /\ \A v \in 1..(u - 1) : threads[v].kind # "none"
       IN threads' = [threads EXCEPT ![t] = [kind |-> kind, at |-> "start"]]

\* everything the shell and its workers' loop conditions never touch
shellFrame == <<pc, conn_open, last_status, loopVars, since_activity,
                since_new_tag, polls, new_tag_log, clean, xferVars, copies_made,
                source_tag_uid, rs_elapsed, retry, write_calls, stop_requested,
                writeVars, codecVars, readVars, connVars, findVars, ledgerVars>>

\* the scan button of the read tab: toggle_scanning(None)
gui_toggle_scanning ==
    /\ tab = 0
    /\ IF ~scanning
       THEN /\ scanning' = TRUE
            /\ Spawn("scan")
       ELSE /\ scanning' = FALSE
            /\ UNCHANGED threads
    /\ UNCHANGED <<reader, copying, source_tag_data, source_tag_url, tab,
                   copy_button, read_button, stop_button>>
    /\ UNCHANGED stopped
    /\ UNCHANGED shellFrame

\* tab_widget.currentChanged: toggle_scanning(False) on the write and copy
\* tabs, stop_copy_operation() on the copy tab while a copy runs
on_tab_changed ==
    /\ \E index \in 0..2 :
         /\ index # tab
         /\ tab' = index
         /\ scanning' = IF index \in {1, 2} THEN FALSE ELSE scanning
         /\ IF index = 2 /\ copying
            THEN /\ copying' = FALSE
                 /\ stopped' = stopped \cup Live
                 /\ stop_button' = FALSE
                 /\ copy_button' = TRUE
                 /\ read_button' = TRUE
            ELSE UNCHANGED <<copying, stop_button, copy_button, read_button, stopped>>
    /\ UNCHANGED <<reader, source_tag_data, source_tag_url, threads>>
    /\ UNCHANGED shellFrame

\* the write button of the write tab (a valid address, quantity >= 1):
\* write_tag starts batch_write_tags on a new thread; it tests no state
gui_write_tag ==
    /\ tab = 1
    /\ Spawn("batch")
    /\ UNCHANGED <<reader, scanning, copying, source_tag_data, source_tag_url,
                   tab, copy_button, read_button, stop_button>>
    /\ UNCHANGED stopped
    /\ UNCHANGED shellFrame

\* the read button of the copy tab: NFCReaderGUI.read_source_tag
gui_read_source_tag ==
    /\ tab = 2
    /\ read_button
    /\ IF ~reader
       THEN UNCHANGED <<copy_button, threads>>
       ELSE /\ copy_button' = FALSE
            /\ Spawn("read_source")
    /\ UNCHANGED <<reader, scanning, copying, source_tag_data, source_tag_url,
                   tab, read_button, stop_button>>
    /\ UNCHANGED stopped
    /\ UNCHANGED shellFrame

\* the copy button of the copy tab: NFCReaderGUI.copy_to_new_tag
gui_copy_to_new_tag ==
    /\ tab = 2
    /\ copy_button
    /\ IF source_tag_data = None \/ ~reader
       THEN UNCHANGED <<copy_button, stop_button, read_button, threads>>
       ELSE /\ copy_button' = FALSE
            /\ stop_button' = TRUE
            /\ read_button' = FALSE
            /\ Spawn("copy")
    /\ UNCHANGED <<reader, scanning, copying, source_tag_data, source_tag_url, tab>>
    /\ UNCHANGED stopped
    /\ UNCHANGED shellFrame

\* the stop button of the copy tab: NFCReaderGUI.stop_copy_operation
gui_stop_copy_operation ==
    /\ tab = 2
    /\ stop_button
    /\ copying' = FALSE
    /\ stop_button' = FALSE
    /\ copy_button' = TRUE
    /\ read_button' = TRUE
    /\ UNCHANGED <<reader, scanning, source_tag_data, source_tag_url, tab, threads>>
    /\ stopped' = stopped \cup Live
    /\ UNCHANGED shellFrame

\* the reset button of the copy tab: NFCReaderGUI.reset_copy_operation
gui_reset_copy_operation ==
    /\ tab = 2
    /\ source_tag_data' = None
    /\ source_tag_url' = None
    /\ copying' = FALSE
    /\ copy_button' = FALSE
    /\ read_button' = TRUE
    /\ stop_button' = FALSE
    /\ UNCHANGED <<reader, scanning, tab, threads>>
    /\ UNCHANGED stopped
    /\ UNCHANGED shellFrame

\* thread t runs the code before its loop
worker_start ==
    \E t \in Live :
      /\ threads[t].at = "start"
      /\ LET kind == threads[t].kind
             enter == [threads EXCEPT ![t].at = "top"]
             leave == [threads EXCEPT ![t] = NoThread]
         IN CASE kind = "read_source" ->
                   \* the stored source is cleared; tag_info_callback("Waiting
                   \* for source tag...") runs on_tag_info
                   /\ source_tag_data' = None
                   /\ source_tag_url' = None
                   /\ copy_button' = TRUE
                   /\ threads' = enter
                   /\ UNCHANGED copying
              [] kind = "copy" ->
                   IF source_tag_data = None \/ ~reader
                   THEN /\ threads' = leave
                        /\ UNCHANGED <<copying, source_tag_data, source_tag_url,
                                       copy_button>>
                   ELSE IF source_tag_url = None
                   THEN /\ copying' = FALSE
                        /\ threads' = leave
                        /\ UNCHANGED <<source_tag_data, source_tag_url, copy_button>>
                   ELSE /\ copying' = TRUE
                        /\ threads' = enter
                        /\ UNCHANGED <<source_tag_data, source_tag_url, copy_button>>
              [] OTHER ->
                   /\ threads' = enter
                   /\ UNCHANGED <<copying, source_tag_data, source_tag_url,
                                  copy_button>>
      /\ UNCHANGED <<reader, scanning, tab, read_button, stop_button>>
      /\ stopped' = {u \in stopped : threads'[u].kind # "none"}
      /\ UNCHANGED shellFrame

\* thread t evaluates its loop condition (and, in the scan loop, the
\* inactivity timeout and the reader test that open the iteration)
worker_top ==
    \E t \in Live :
      /\ threads[t].at = "top"
      /\ LET kind == threads[t].kind
             enter == [threads EXCEPT ![t].at = "body"]
             leave == [threads EXCEPT ![t] = NoThread]
         IN CASE kind = "scan" ->
                   /\ UNCHANGED <<copying, copy_button>>
                   /\ IF ~scanning
                      THEN threads' = leave /\ UNCHANGED scanning
                      ELSE \E timed_out \in BOOLEAN :
                             IF timed_out
                             THEN scanning' = FALSE /\ threads' = leave
                             ELSE /\ UNCHANGED scanning
                                  /\ threads' = IF reader THEN enter ELSE threads
              [] kind = "batch" ->
                   \* while tags_written < quantity: left only by the return
                   \* in the body
                   /\ threads' = enter
                   /\ UNCHANGED <<scanning, copying, copy_button>>
              [] kind = "read_source" ->
                   \* while time.time() < timeout_time; after the loop
                   \* tag_info_callback("No source tag scanned yet")
                   /\ UNCHANGED <<scanning, copying>>
                   /\ \E timed_out \in BOOLEAN :
                        IF timed_out
                        THEN copy_button' = TRUE /\ threads' = leave
                        ELSE UNCHANGED copy_button /\ threads' = enter
              [] OTHER ->
                   \* while tags_written < quantity and self.copying; after
                   \* the loop self.copying = False
                   /\ UNCHANGED <<scanning, copy_button>>
                   /\ IF copying
                      THEN threads' = enter /\ UNCHANGED copying
                      ELSE threads' = leave /\ copying' = FALSE
      /\ UNCHANGED <<reader, source_tag_data, source_tag_url, tab, read_button,
                     stop_button>>
      /\ stopped' = {u \in stopped : threads'[u].kind # "none"}
      /\ UNCHANGED shellFrame

\* thread t finishes an iteration: it has opened the channel and sent its
\* commands; the operation is over (the last tag written, the source read)
\* or the thread goes back to the loop condition
worker_body ==
    \E t \in Live :
      /\ threads[t].at = "body"
      /\ LET kind == threads[t].kind
             again == [threads EXCEPT ![t].at = "top"]
             leave == [threads EXCEPT ![t] = NoThread]
         IN \E finished \in BOOLEAN :
              IF ~finished \/ kind = "scan"
              THEN /\ threads' = again
                   /\ UNCHANGED <<copying, source_tag_data, source_tag_url,
                                  copy_button, read_button, stop_button>>
              ELSE /\ threads' = leave
                   /\ CASE kind = "batch" ->
                             UNCHANGED <<copying, source_tag_data, source_tag_url,
                                         copy_button, read_button, stop_button>>
                        [] kind = "read_source" ->
                             \* the source is stored; tag_info_callback(...)
                             /\ source_tag_data' = "data"
                             /\ \E u \in {"url", None} : source_tag_url' = u
                             /\ copy_button' = TRUE
                             /\ UNCHANGED <<copying, read_button, stop_button>>
                        [] OTHER ->
                             \* progress_callback(quantity, quantity), then
                             \* self.copying = False
                             /\ copying' = FALSE
                             /\ stop_button' = FALSE
                             /\ read_button' = TRUE
                             /\ UNCHANGED <<source_tag_data, source_tag_url,
                                            copy_button>>
      /\ UNCHANGED <<reader, scanning, tab>>
      /\ stopped' = {u \in stopped : threads'[u].kind # "none"}
      /\ UNCHANGED shellFrame

InitShell == pc = "idle" /\ InitDev /\ InitLoopVars /\ InitScanVars /\ InitXferVars /\ InitCopyVars /\ InitWriteVars /\ InitAux

NextShell ==
    \/ check_reader
    \/ gui_toggle_scanning
    \/ on_tab_changed
    \/ gui_write_tag
    \/ gui_read_source_tag
    \/ gui_copy_to_new_tag
    \/ gui_stop_copy_operation
    \/ gui_reset_copy_operation
    \/ worker_start
    \/ worker_top
    \/ worker_body

SpecShell == InitShell /\ [][NextShell]_vars

\* ======================================================== validate_url
\* a web address tagged tel: is given a web scheme
TelStep(n) ==
    IF StartsWith(n, "tel:") /\ (Contains(n, ".") \/ Contains(RemoveAll(n, "tel:"), "/"))
    THEN LET web_url == Strip(RemoveAll(n, "tel:"))
         IN (IF DomainLike(web_url) THEN "https://" ELSE "http://") \o web_url
    ELSE n

\* "Fix common URL typos"
TypoStep(n) ==
    IF StartsWithAny(n, <<"ttps://", "tps://", "tp://">>) THEN "h" \o n
    ELSE IF StartsWithAny(n, <<"ttp://", "tp://">>) THEN "h" \o n
    ELSE IF StartsWith(n, "htttps://") THEN "https://" \o Drop(n, 8)
    ELSE n

HasWebScheme(n) == StartsWithAny(n, <<"http://", "https://">>)

\* "Add protocol if missing"
ProtocolStep(n) ==
    IF StartsWith(n, "www.") THEN "https://" \o n
    ELSE IF ~HasWebScheme(n) /\ DomainLike(n) THEN "https://" \o n
    ELSE n

\* lan_ip_pattern: ^https://(?:10\.|172\.(?:1[6-9]|2[0-9]|3[01])\.|192\.168\.)
LanIp(n) ==
    /\ StartsWith(n, "https://")
    /\ LET host == Drop(n, 8)
       IN \/ StartsWith(host, "10.")
          \/ StartsWith(host, "192.168.")
          \/ /\ StartsWith(host, "172.")
             /\ Len(host) >= 7
             /\ Char(host, 7) = "."
             /\ \/ Char(host, 5) = "1" /\ Char(host, 6) \in {"6", "7", "8", "9"}
                \/ Char(host, 5) = "2" /\ Char(host, 6) \in Digits
                \/ Char(host, 5) = "3" /\ Char(host, 6) \in {"0", "1"}

\* no rewrite of a LAN address
LanStep_keeps_https(n) == n

\* rewrite https:// to http:// on a LAN address
LanStep(n) == IF LanIp(n) THEN "http://" \o Drop(n, 8) ELSE n

\* re.match(r'^https?://[^\s/$.?#].[^\s]*$', n); n carries no trailing newline
ValidUrl(n) ==
    /\ HasWebScheme(n)
    /\ LET rest == IF StartsWith(n, "http://") THEN Drop(n, 7) ELSE Drop(n, 8)
       IN /\ Len(rest) >= 2
          /\ Char(rest, 1) \notin Whitespace \cup {"/", "$", ".", "?", "#"}
          /\ Char(rest, 2) # "\n"
          /\ \A i \in 3..Len(rest) : Char(rest, i) \notin Whitespace

Validated(n) == [is_valid |-> ValidUrl(n), normalized_url |-> n]

\* validate_url with the local-network rewrite ahead of the scheme inference
validate_url_lan_first(u) ==
    IF u = "" THEN [is_valid |-> FALSE, normalized_url |-> u]
    ELSE Validated(ProtocolStep(LanStep(TypoStep(TelStep(Strip(u))))))

\* validate_url(url) -> (is_valid, normalized_url)
validate_url(u) ==
    IF u = "" THEN [is_valid |-> FALSE, normalized_url |-> u]
    ELSE Validated(LanStep(ProtocolStep(TypoStep(TelStep(Strip(u))))))

\* ===================================================== _create_url_ndef
\* url_prefixes, in the order the dict is iterated; the code is the index - 1
url_prefixes == <<"http://www.", "https://www.", "http://", "https://", "tel:", "mailto:">>

\* looks_like_web: any("." + tld in text.lower() for tld in [...])
looks_like_web(t) ==
    \E tld \in {"com", "org", "net", "edu", "gov", "io", "app"} :
        Contains(Lower(t), "." \o tld)

\* total_length = len(ndef_header) + len(record_data), with the mutant that
\* counts the record data alone
TotalLength_without_header(ndef_header, record_data) == Len(record_data)

TotalLength(ndef_header, record_data) == Len(ndef_header) + Len(record_data)

\* ndef_data = [0x03, total_length] + ndef_header + record_data + [0xFE]
Wrap(ndef_header, record_data) ==
    <<3, TotalLength(ndef_header, record_data)>> \o ndef_header \o record_data \o <<254>>

\* "URL record with prefix": header D1 01 len 'U', payload prefix code + bytes
URecord(prefix_found, remaining_text) ==
    LET remaining_bytes == Utf8(remaining_text)
    IN Wrap(<<209, 1, Len(remaining_bytes) + 1, 85>>, <<prefix_found>> \o remaining_bytes)

\* "Store as plain text": header D1 01 len 'T' 00, payload the text bytes
TRecord(t) ==
    LET text_bytes == Utf8(t)
    IN Wrap(<<209, 1, Len(text_bytes) + 1, 84, 0>>, text_bytes)

\* _create_url_ndef(text) -> ndef_data
create_url_ndef(t) ==
    IF StartsWithAny(t, <<"http://www.", "https://www.", "http://", "https://">>)
    THEN LET k == CHOOSE i \in 1..Len(url_prefixes) :
                      /\ StartsWith(t, url_prefixes[i])
                      /\ \A h \in 1..(i - 1) : ~StartsWith(t, url_prefixes[h])
         IN URecord(k - 1, Drop(t, Len(url_prefixes[k])))
    ELSE IF StartsWith(t, "tel:") /\ (Contains(t, ".") \/ Contains(RemoveAll(t, "tel:"), "/"))
    THEN LET web_url == Strip(RemoveAll(t, "tel:"))
         IN URecord(IF DomainLike(web_url) THEN 3 ELSE 2, web_url)
    ELSE IF looks_like_web(t)
    THEN URecord(2, t)
    ELSE TRecord(t)

\* ================================================ extract_url_from_data
\* utils.URL_PREFIXES: the prefix of code c is URL_PREFIXES[c + 1]
URL_PREFIXES == <<"http://www.", "https://www.", "http://", "https://", "tel:",
                  "mailto:", "ftp://anonymous:anonymous@", "ftp://ftp.", "ftps://",
                  "sftp://", "smb://", "nfs://", "ftp://", "dav://", "news:",
                  "telnet://", "imap:", "rtsp://", "urn:", "pop:", "sip:", "sips:",
                  "tftp:", "btspp://", "btl2cap://", "btgoep://", "tcpobex://",
                  "irdaobex://", "file://", "urn:epc:id:", "urn:epc:tag:",
                  "urn:epc:pat:", "urn:epc:raw:", "urn:epc:", "urn:nfc:">>

\* URL_PREFIXES.get(url_prefix_byte, "")
PrefixOf(c) == IF c + 1 \in 1..Len(URL_PREFIXES) THEN URL_PREFIXES[c + 1] ELSE ""

\* data[k] and data[a:b] with Python's 0-based indices
At(d, k) == d[k + 1]
Slice(d, a, b) == SubSeq(d, a + 1, Min(b, Len(d)))

\* "Fix for URLs starting with 10.0.0.1", on the bytes of the content
FixTen(bs) ==
    IF Len(bs) >= 7 /\ SubSeq(bs, 1, 7) = Utf8("0.0.0.1")
    THEN Utf8("10.0.0.1") \o SubSeq(bs, 8, Len(bs))
    ELSE bs

\* bytes(...).decode('utf-8', errors='replace') followed by the loop that
\* keeps the characters of string.printable: the printable ASCII bytes stay,
\* every other byte of the buffers modelled is dropped
RECURSIVE Cleaned(_)
Cleaned(bs) ==
    IF Len(bs) = 0 THEN ""
    ELSE (IF bs[1] \in 32..126 THEN Chr(bs[1]) ELSE "") \o Cleaned(Tail(bs))

\* .strip('\x00') on the decoded text
RECURSIVE StripNul(_)
StripNul(bs) ==
    IF Len(bs) = 0 THEN bs
    ELSE IF bs[1] = 0 THEN StripNul(Tail(bs))
    ELSE IF bs[Len(bs)] = 0 THEN StripNul(SubSeq(bs, 1, Len(bs) - 1))
    ELSE bs

\* the address of the 'U' record whose header starts at index j
UrlAt(d, j) ==
    LET prefix == PrefixOf(At(d, j + 4))
        payload_length == At(d, j + 2)
        cleaned_url == Cleaned(FixTen(Slice(d, j + 5, j + 5 + payload_length - 1)))
        joined == prefix \o Strip(cleaned_url)
        retagged ==
            IF StartsWith(joined, "tel:") /\ (Contains(cleaned_url, ".") \/ Contains(cleaned_url, "/"))
            THEN LET web_url == Strip(cleaned_url)
                 IN (IF DomainLike(web_url) THEN "https://" ELSE "http://") \o web_url
            ELSE joined
        fixed == TypoStep(retagged)
    IN IF ~HasWebScheme(fixed) /\ DomainLike(fixed) THEN "https://" \o fixed ELSE fixed

\* the text of the 'T' record whose header starts at index j, taken from
\* data[text_start:text_end]
TextAt(d, text_start, text_end) ==
    LET cleaned_text == Strip(Cleaned(FixTen(StripNul(Slice(d, text_start, text_end)))))
    IN IF DomainLike(cleaned_text) THEN "https://" \o cleaned_text
       ELSE IF StartsWithAny(cleaned_text, <<"ttps://", "tps://", "tp://">>) THEN "h" \o cleaned_text
       ELSE IF StartsWithAny(cleaned_text, <<"ttp://", "tp://">>) THEN "h" \o cleaned_text
       ELSE IF StartsWith(cleaned_text, "htttps://") THEN "https://" \o Drop(cleaned_text, 8)
       ELSE cleaned_text

\* lang_code_length = data[j+5] & 0x3F; text_start = j+6+lang_code_length;
\* text_end = j+2+data[j+2]
LangCodeIndex(j) == j + 5
TextStart(d, j) == j + 6 + (At(d, LangCodeIndex(j)) % 64)
TextEnd(d, j) == j + 2 + At(d, j + 2)

\* the second inner loop, from index j: the first 'T' record header whose
\* text range is not empty; reading data[j+5] past the end raises, and the
\* function's except returns None
RECURSIVE TextLoop(_, _, _)
TextLoop(d, j, stop) ==
    IF j >= stop THEN [kind |-> "none", value |-> ""]
    ELSE IF At(d, j) = 209 /\ At(d, j + 3) = 84
    THEN IF LangCodeIndex(j) >= Len(d) THEN [kind |-> "raise", value |-> ""]
         ELSE IF TextStart(d, j) < TextEnd(d, j)
         THEN [kind |-> "found", value |-> TextAt(d, TextStart(d, j), TextEnd(d, j))]
         ELSE TextLoop(d, j + 1, stop)
    ELSE TextLoop(d, j + 1, stop)

\* the outer loop "for i in range(len(data) - 2)", from index i
RECURSIVE ScanTlv(_, _)
ScanTlv(d, i) ==
    IF i >= Len(d) - 2 THEN <<>>
    ELSE IF At(d, i) = 3 /\ i + 2 + At(d, i + 1) <= Len(d)
    THEN LET length == At(d, i + 1)
             us == {j \in (i + 2)..(i + 2 + length - 4 - 1) :
                        j + 3 < Len(d) /\ At(d, j) = 209 /\ At(d, j + 3) = 85}
         IN IF us # {}
            THEN <<UrlAt(d, CHOOSE j \in us : \A h \in us : j <= h)>>
            ELSE LET t == TextLoop(d, i + 2, i + 2 + length - 4)
                 IN IF t.kind = "found" THEN <<t.value>>
                    ELSE IF t.kind = "raise" THEN <<>>
                    ELSE ScanTlv(d, i + 1)
    ELSE ScanTlv(d, i + 1)

\* extract_url_from_data(data) -> the address, or None (<<>>)
extract_url_from_data(d) == IF Len(d) < 8 THEN <<>> ELSE ScanTlv(d, 0)

\* ======================================================= codec pipeline
\* The pure functions applied to an input string: validate_url, validate_url
\* again on its result, _create_url_ndef on the raw or the normalized string
\* (write_tag hands the normalized string on when it is valid), and
\* extract_url_from_data on the encoded message or on a buffer read from a tag.
Fragments == {"https://", "http://", "www.", "tel:", "mailto:", "ttps://", "tp://",
              "htttps://", "a.io", "10.", "192.168.", "172.16.", "172.32.",
              "0.0.0.1", "/", " ", "hi", "@"}

\* whole addresses a caller supplies
Addresses == {"https://192.168.1.5/admin", "https://172.31.0.9:8443/x"}

RECURSIVE Inputs(_)
Inputs(n) ==
    IF n = 0 THEN {""}
    ELSE LET shorter == Inputs(n - 1)
         IN shorter \cup {f \o t : f \in Fragments, t \in shorter}

\* memory buffers holding the text record D1 01 02 'T' 00 "hi", bare and
\* after a lock-control TLV
TextHiBuffer == <<3, 5, 209, 1, 2, 84, 0, 104, 105, 254>>
TextHiBuffers == {TextHiBuffer, <<1, 3, 160, 12, 52>> \o TextHiBuffer}

\* memory buffers that end inside the payload of their record: the NDEF TLV
\* (03 09) fits the buffer, the record D1 01 0C 'U' 04 / D1 01 0C 'T' 00
\* declares 12 payload bytes and 5 of them are there ("exam" of "example.com")
TruncatedBuffers == {<<3, 9, 209, 1, 12, 85, 4, 101, 120, 97, 109>>,
                     <<3, 9, 209, 1, 12, 84, 0, 101, 120, 97, 109>>}

\* the buffers read from a tag that are handed to extract_url_from_data
TagBuffers == TextHiBuffers \cup TruncatedBuffers

codecFrame == <<pc, devVars, loopVars, scanVars, xferVars, copyVars, writeVars,
                shellVars, readVars, connVars, findVars, ledgerVars>>

\* a caller supplies an address string
codec_input ==
    /\ codec_pc = "idle"
    /\ \E s \in Inputs(MaxFragments) \cup Addresses : url' = s
    /\ codec_pc' = "input"
    /\ UNCHANGED <<normalized, renormalized, text, ndef_data, data, complete_url>>
    /\ UNCHANGED codecFrame

\* is_valid, normalized_url = validate_url(url)
do_validate_url ==
    /\ codec_pc = "input"
    /\ normalized' = <<validate_url(url)>>
    /\ codec_pc' = "normalized"
    /\ UNCHANGED <<url, renormalized, text, ndef_data, data, complete_url>>
    /\ UNCHANGED codecFrame

\* validate_url(normalized_url)
do_validate_again ==
    /\ codec_pc = "normalized"
    /\ renormalized' = <<validate_url(normalized[1].normalized_url)>>
    /\ codec_pc' = "renormalized"
    /\ UNCHANGED <<url, normalized, text, ndef_data, data, complete_url>>
    /\ UNCHANGED codecFrame

\* ndef_data = _create_url_ndef(text), text the raw string or, when valid,
\* the normalized one
do_create_url_ndef ==
    /\ codec_pc = "renormalized"
    /\ \E t \in {url} \cup (IF normalized[1].is_valid
                            THEN {normalized[1].normalized_url} ELSE {}) :
         /\ text' = t
         /\ ndef_data' = create_url_ndef(t)
    /\ codec_pc' = "encoded"
    /\ UNCHANGED <<url, normalized, renormalized, data, complete_url>>
    /\ UNCHANGED codecFrame

\* extract_url_from_data(ndef_data)
do_extract_url ==
    /\ codec_pc = "encoded"
    /\ data' = ndef_data
    /\ complete_url' = extract_url_from_data(ndef_data)
    /\ codec_pc' = "decoded"
    /\ UNCHANGED <<url, normalized, renormalized, text, ndef_data>>
    /\ UNCHANGED codecFrame

\* extract_url_from_data(memory) on a buffer read from a tag
do_extract_buffer ==
    /\ codec_pc = "idle"
    /\ \E b \in TagBuffers :
         /\ data' = b
         /\ complete_url' = extract_url_from_data(b)
    /\ codec_pc' = "decoded"
    /\ UNCHANGED <<url, normalized, renormalized, text, ndef_data>>
    /\ UNCHANGED codecFrame

InitCodec == pc = "idle" /\ InitDev /\ InitLoopVars /\ InitScanVars /\ InitXferVars /\ InitCopyVars /\ InitWriteVars /\ InitAux

NextCodec ==
    \/ codec_input
    \/ do_validate_url
    \/ do_validate_again
    \/ do_create_url_ndef
    \/ do_extract_url
    \/ do_extract_buffer

SpecCodec == InitCodec /\ [][NextCodec]_vars

\* ------------------------------------------------------ reading tag memory
\* the variables the reader's calls leave alone
engineVars == <<pc, devVars, loopVars, scanVars, xferVars, copyVars, writeVars>>
readFrame == <<engineVars, shellVars, codecVars, connVars, findVars, ledgerVars>>

\* reader.py: for page in range(4, 40) / max_page = 80 if is_acr122u else 130,
\* for page in range(4, max_page): the first page number that is not read
PageEnd(full, acr) == IF ~full THEN 40 ELSE IF acr THEN 80 ELSE 130

\* first byte of a page a tag answers with: data, or the NDEF terminator 0xFE
FirstBytes == {0, 254}

\* the 4 bytes a READ_PAGE [page, 0x04] answers with; the other three bytes
\* carry the page number so that the pages of a result can be told apart
PageResponse(b, p) == <<b, p, p, p>>

\* a check that never sees the terminator
IsTerminator_never(response) == FALSE

\* reader.py: if len(response) >= 4 and response[0] == 0xFE: break
IsTerminator(response) == Len(response) >= 4 /\ response[1] = 254

\* the transmits that read_tag_memory[_full] makes inside "try: ... except
\* Exception": the presence check, the page 3 read and every data page read
ReadGuarded == {"uid", "cc", "pages"}

\* read_tag_memory(connection) / read_tag_memory_full(connection) is called:
\* all_data = [], is_acr122u = "ACR122" in reader_str
read_tag_memory ==
    /\ rd_pc = "idle"
    /\ \E full \in BOOLEAN, acr \in BOOLEAN :
         /\ extended' = full
         /\ is_acr122u' = acr
    /\ all_data' = <<>>
    /\ rd_page' = BasePage
    /\ page_reads' = <<>>
    /\ first_stop' = 0
    /\ rd_checks' = <<>>
    /\ rd_raised' = FALSE
    /\ rd_pc' = "uid"
    /\ UNCHANGED readFrame

\* the tag presence check: transmit(GET_UID); a status other than 0x90 or an
\* exception returns []
rd_get_uid ==
    /\ rd_pc = "uid"
    /\ \E o \in Outcomes :
         /\ rd_checks' = Append(rd_checks, o)
         /\ rd_raised' = (o = "exc" /\ "uid" \notin ReadGuarded)
         /\ rd_pc' = IF o = "ok" THEN "cc" ELSE "idle"
    /\ UNCHANGED <<extended, is_acr122u, rd_page, all_data, page_reads, first_stop>>
    /\ UNCHANGED readFrame

\* rd_read_cc going on to the data pages on a failure status
rd_read_cc_ignores_status ==
    /\ rd_pc = "cc"
    /\ \E o \in Outcomes :
         /\ rd_checks' = Append(rd_checks, o)
         /\ rd_raised' = (o = "exc" /\ "cc" \notin ReadGuarded)
         /\ rd_pc' = IF o \in {"ok", "bad"} THEN "pages" ELSE "idle"
    /\ UNCHANGED <<extended, is_acr122u, rd_page, all_data, page_reads, first_stop>>
    /\ UNCHANGED readFrame

\* the capability container: transmit(READ_PAGE + [3, 0x04]); a status other
\* than 0x90 or an exception returns []
rd_read_cc ==
    /\ rd_pc = "cc"
    /\ \E o \in Outcomes :
         /\ rd_checks' = Append(rd_checks, o)
         /\ rd_raised' = (o = "exc" /\ "cc" \notin ReadGuarded)
         /\ rd_pc' = IF o = "ok" THEN "pages" ELSE "idle"
    /\ UNCHANGED <<extended, is_acr122u, rd_page, all_data, page_reads, first_stop>>
    /\ UNCHANGED readFrame

\* one iteration of the page loop, and the return that follows its last one:
\* transmit(READ_PAGE + [page, 0x04]); sw1 == 0x90 extends all_data, any other
\* status breaks, a page beginning with 0xFE breaks after it was appended, an
\* exception breaks
rd_read_page ==
    /\ rd_pc = "pages"
    /\ rd_page < PageEnd(extended, is_acr122u)
    /\ \E o \in Outcomes, b \in FirstBytes :
         LET response == PageResponse(b, rd_page)
             stop == o # "ok" \/ IsTerminator(response)
             last == rd_page + 1 >= PageEnd(extended, is_acr122u)
         IN  /\ o # "ok" => b = 0
             /\ page_reads' = Append(page_reads, rd_page)
             /\ all_data' = IF o = "ok" THEN all_data \o response ELSE all_data
             /\ first_stop' = IF first_stop = 0 /\ (o # "ok" \/ b = 254)
                              THEN rd_page ELSE first_stop
             /\ rd_raised' = (o = "exc" /\ "pages" \notin ReadGuarded)
             /\ rd_pc' = IF stop \/ last THEN "idle" ELSE "pages"
             /\ rd_page' = IF stop \/ last THEN rd_page ELSE rd_page + 1
    /\ UNCHANGED <<extended, is_acr122u, rd_checks>>
    /\ UNCHANGED readFrame

InitRead == pc = "idle" /\ InitDev /\ InitLoopVars /\ InitScanVars /\ InitXferVars /\ InitCopyVars /\ InitWriteVars /\ InitAux

NextRead ==
    \/ read_tag_memory
    \/ rd_get_uid
    \/ rd_read_cc
    \/ rd_read_page

SpecRead == InitRead /\ [][NextRead]_vars

\* ------------------------------------------------- opening the card channel
readRest == <<rd_pc, extended, rd_page, all_data, page_reads, first_stop, rd_checks,
              rd_raised>>
connFrame == <<pc, conn_open, last_status, loopVars, scanVars, xferVars, copyVars,
               writeVars, shellVars, codecVars, readRest, findVars, ledgerVars>>

\* six rounds for every reader
max_attempts_six(acr) == 6

\* reader.py: max_attempts = 6 if is_acr122u else 5
max_attempts(acr) == IF acr THEN 6 ELSE 5

\* reader.py: protocols = ['T0', 'T1', 'T=0', 'T=1', None] if is_acr122u
\*            else ['T1', 'T0', 'T=1', 'T=0', None]
protocols(acr) == IF acr THEN <<"T0", "T1", "T=0", "T=1", None>>
                  ELSE <<"T1", "T0", "T=1", "T=0", None>>

\* what connection.connect() and connection.disconnect() can do
CallOutcomes == {"ok", "exc"}

\* the calls on the device that connect_with_retry makes inside a try block:
\* createConnection (except Exception), connect (except Exception), the
\* identity transmit (bare except) and disconnect (bare except)
Guarded == {"create", "connect", "verify", "disconnect"}

\* the call on the channel is recorded after the one before it
Called(call, o) ==
    LET c == [call |-> call, sw |-> o]
    IN IF cn_calls = <<>> THEN <<c>> ELSE <<cn_calls[Len(cn_calls)], c>>

\* an exception of a call that no try block guards leaves connect_with_retry
cn_raise ==
    /\ cn_raised' = TRUE
    /\ cn_pc' = "idle"
    /\ UNCHANGED <<attempt, protocol, cn_result>>

\* the next iteration of  for attempt in range(max_attempts): for protocol in
\* protocols:  or, when both loops are exhausted, return None, False
cn_next ==
    IF protocol < Len(protocols(is_acr122u))
    THEN /\ protocol' = protocol + 1
         /\ cn_pc' = "connect"
         /\ UNCHANGED <<attempt, cn_result>>
    ELSE IF attempt + 1 < max_attempts(is_acr122u)
    THEN /\ attempt' = attempt + 1
         /\ protocol' = 1
         /\ cn_pc' = "connect"
         /\ UNCHANGED cn_result
    ELSE /\ cn_result' = Ret(FALSE)
         /\ cn_pc' = "idle"
         /\ UNCHANGED <<attempt, protocol>>

\* connect_with_retry() is called: no reader, or a call within the debounce
\* time of the last one, returns None, False at once
connect_with_retry ==
    /\ cn_pc = "idle"
    /\ connects' = 0
    /\ attempt' = 0
    /\ protocol' = 1
    /\ cn_raised' = FALSE
    /\ cn_calls' = <<>>
    /\ \E acr \in BOOLEAN, debounced \in BOOLEAN :
         /\ is_acr122u' = acr
         /\ IF ~reader \/ debounced
            THEN cn_result' = Ret(FALSE) /\ cn_pc' = "idle"
            ELSE cn_result' = None /\ cn_pc' = "create"
    /\ UNCHANGED <<reader, connFrame>>

\* connection = self.reader.createConnection(); an exception returns None, False
cn_create ==
    /\ cn_pc = "create"
    /\ \E o \in CallOutcomes :
         CASE o = "ok" ->
                /\ cn_pc' = "connect"
                /\ UNCHANGED <<attempt, protocol, cn_result, cn_raised>>
           [] o = "exc" /\ "create" \in Guarded ->
                /\ cn_pc' = "idle"
                /\ cn_result' = Ret(FALSE)
                /\ UNCHANGED <<attempt, protocol, cn_raised>>
           [] OTHER -> cn_raise
    /\ UNCHANGED <<connects, is_acr122u, cn_calls>>
    /\ UNCHANGED <<reader, connFrame>>

\* connection.connect(...) with the current protocol; an exception is caught,
\* the loop sleeps and goes on to the disconnect
cn_connect ==
    /\ cn_pc = "connect"
    /\ connects' = connects + 1
    /\ \E o \in CallOutcomes :
         /\ cn_calls' = Called("connect", o)
         /\ (CASE o = "ok" ->
                /\ cn_pc' = "verify"
                /\ UNCHANGED <<attempt, protocol, cn_result, cn_raised>>
           [] o = "exc" /\ "connect" \in Guarded ->
                /\ cn_pc' = "disconnect"
                /\ UNCHANGED <<attempt, protocol, cn_result, cn_raised>>
           [] OTHER -> cn_raise)
    /\ UNCHANGED is_acr122u
    /\ UNCHANGED <<reader, connFrame>>

\* cn_verify accepting any status of the identity transmit
cn_verify_any_status ==
    /\ cn_pc = "verify"
    /\ \E o \in Outcomes :
         /\ cn_calls' = Called("verify", o)
         /\ (CASE o \in {"ok", "bad"} ->
                           /\ cn_result' = Ret(TRUE)
                           /\ cn_pc' = "idle"
                           /\ UNCHANGED <<attempt, protocol, cn_raised>>
           [] o = "exc" /\ "verify" \in Guarded ->
                           cn_next /\ UNCHANGED cn_raised
           [] OTHER -> cn_raise)
    /\ UNCHANGED <<connects, is_acr122u>>
    /\ UNCHANGED <<reader, connFrame>>

\* connection.transmit(GET_UID): sw1 == 0x90 returns connection, True; another
\* status falls through to the disconnect; an exception continues with the
\* next protocol
cn_verify ==
    /\ cn_pc = "verify"
    /\ \E o \in Outcomes :
         /\ cn_calls' = Called("verify", o)
         /\ (CASE o = "ok"  -> /\ cn_result' = Ret(TRUE)
                           /\ cn_pc' = "idle"
                           /\ UNCHANGED <<attempt, protocol, cn_raised>>
           [] o = "bad" -> /\ cn_pc' = "disconnect"
                           /\ UNCHANGED <<attempt, protocol, cn_result, cn_raised>>
           [] o = "exc" /\ "verify" \in Guarded ->
                           cn_next /\ UNCHANGED cn_raised
           [] OTHER -> cn_raise)
    /\ UNCHANGED <<connects, is_acr122u>>
    /\ UNCHANGED <<reader, connFrame>>

\* connection.disconnect() inside try/except: pass, then the next protocol
cn_disconnect ==
    /\ cn_pc = "disconnect"
    /\ \E o \in CallOutcomes :
         /\ cn_calls' = Called("disconnect", o)
         /\ IF o = "ok" \/ "disconnect" \in Guarded
            THEN cn_next /\ UNCHANGED cn_raised
            ELSE cn_raise
    /\ UNCHANGED <<connects, is_acr122u>>
    /\ UNCHANGED <<reader, connFrame>>

InitConnect == pc = "idle" /\ InitDev /\ InitLoopVars /\ InitScanVars /\ InitXferVars /\ InitCopyVars /\ InitWriteVars /\ InitAux

NextConnect ==
    \/ check_reader
    \/ connect_with_retry
    \/ cn_create
    \/ cn_connect
    \/ cn_verify
    \/ cn_disconnect

SpecConnect == InitConnect /\ [][NextConnect]_vars

\* ------------------------------------------------------ selecting a reader
findFrame == <<pc, conn_open, last_status, loopVars, scanVars, xferVars, copyVars,
               writeVars, shellVars, codecVars, readVars, connVars, ledgerVars>>

\* reader.py find_reader: reader_models, in the order of the dict
reader_models ==
    << <<"ACR1252", "ACR1252U">>,
       <<"ACR122", "ACR122U">>,
       <<"ACS ACR122", "ACR122U">>,
       <<"ACS ACR", "ACS Reader">>,
       <<"SCM Microsystems", "SCM Reader">>,
       <<"OMNIKEY", "HID Omnikey">>,
       <<"Sony", "Sony RC-S380">>,
       <<"PN53", "PN532">>,
       <<"USB Reader", "Generic USB Reader">> >>

\* reader.py find_reader: ignored_readers
ignored_readers ==
    <<"Yubico", "YubiKey", "Smart Card Reader", "USB Smart Card Reader",
      "Common Access Card", "CAC Reader", "PIV Reader", "EMV Reader">>

\* names a PC/SC enumeration answers with
DeviceNames ==
    {"ACS ACR122U PICC Interface 00",
     "ACS ACR1252 1S CL Reader PICC 0",
     "Yubico YubiKey OTP+FIDO+CCID 00",
     "HID OMNIKEY 5022 Smart Card Reader 00",
     "Generic Contactless Reader 00",
     "yubikey bridge 01"}

\* the lists readers_func() can return
RECURSIVE ReaderLists(_)
ReaderLists(n) ==
    IF n = 0 THEN {<<>>}
    ELSE ReaderLists(n - 1) \cup
         {Append(l, d) : l \in {m \in ReaderLists(n - 1) : Len(m) = n - 1},
                         d \in DeviceNames}

\* any(ignored in reader_str for ignored in ignored_readers)
Ignored(reader_str) ==
    \E i \in 1..Len(ignored_readers) : Contains(reader_str, ignored_readers[i])

\* any(ignored.lower() in reader_str.lower() for ignored in ignored_readers)
IgnoredAnyCase(reader_str) ==
    \E i \in 1..Len(ignored_readers) :
        Contains(Lower(reader_str), Lower(ignored_readers[i]))

\* model_id.lower() in reader_str.lower()
ModelMatches(reader_str, i) ==
    Contains(Lower(reader_str), Lower(reader_models[i][1]))

\* the loop over reader_models.items(): the name of the first matching model,
\* <<>> for reader_model = None
ModelOf(reader_str) ==
    IF \E i \in 1..Len(reader_models) : ModelMatches(reader_str, i)
    THEN LET first == CHOOSE i \in 1..Len(reader_models) :
                          /\ ModelMatches(reader_str, i)
                          /\ \A j \in 1..(i - 1) : ~ModelMatches(reader_str, j)
         IN  <<reader_models[first][2]>>
    ELSE <<>>

\* the body of  for r in available_readers:  the model the device is accepted
\* with, <<>> when the loop continues with the next device
Accepted(reader_str) ==
    IF Ignored(reader_str) THEN <<>>
    ELSE IF ModelOf(reader_str) # <<>> THEN ModelOf(reader_str)
    ELSE IF ~IgnoredAnyCase(reader_str) THEN <<"Generic NFC Reader">>
    ELSE <<>>

\* the first accepted device of the list, 0 when there is none
FirstAccepted(rs) ==
    IF \E i \in 1..Len(rs) : Accepted(rs[i]) # <<>>
    THEN CHOOSE i \in 1..Len(rs) :
             /\ Accepted(rs[i]) # <<>>
             /\ \A j \in 1..(i - 1) : Accepted(rs[j]) = <<>>
    ELSE 0

\* find_reader() is called: available_readers = self.readers_func() and
\* self.reader = None; an exception of readers_func returns False, "Error - .."
\* before self.reader is touched
find_reader ==
    /\ fr_pc = "idle"
    /\ \/ /\ fr_result' = <<Ret(FALSE), "Error">>
          /\ UNCHANGED <<available_readers, selected, reader, fr_pc>>
       \/ /\ \E rs \in ReaderLists(MaxReaders) : available_readers' = rs
          /\ selected' = None
          /\ reader' = FALSE
          /\ fr_result' = <<>>
          /\ fr_pc' = "loop"
    /\ UNCHANGED findFrame

\* the loop over available_readers and the return: the first accepted device
\* is stored in self.reader and True is returned with its model; without one,
\* False, "No NFC reader found"
fr_loop ==
    /\ fr_pc = "loop"
    /\ LET i == FirstAccepted(available_readers)
       IN  IF i # 0
           THEN /\ selected' = available_readers[i]
                /\ reader' = TRUE
                /\ fr_result' = <<Ret(TRUE), Accepted(available_readers[i])[1]>>
           ELSE /\ fr_result' = <<Ret(FALSE), "No NFC reader found">>
                /\ UNCHANGED <<selected, reader>>
    /\ fr_pc' = "idle"
    /\ UNCHANGED available_readers
    /\ UNCHANGED findFrame

\* NFCReader.__init__: self.reader = None
InitFind ==
    /\ pc = "idle"
    /\ reader = FALSE
    /\ conn_open = FALSE
    /\ last_status = None
    /\ InitLoopVars /\ InitScanVars /\ InitXferVars /\ InitCopyVars
    /\ InitWriteVars
    /\ InitAux

NextFind ==
    \/ find_reader
    \/ fr_loop

SpecFind == InitFind /\ [][NextFind]_vars

\* ---------------------------------------------------- requested quantities
\* the quantities a caller can pass to batch_write_tags and copy_to_new_tags,
\* which take any int
QuantityArgs == (-1)..MaxQuantity

\* gui.py write_tag from the quantity check on: quantity < 1 shows "Quantity
\* must be at least 1" and returns, else the batch worker is started
write_tag ==
    /\ pc = "idle"
    /\ \E q \in QuantityArgs :
         IF q < 1
         THEN /\ last_status' = "quantity_error"
              /\ UNCHANGED <<pc, reader, conn_open, loopVars, scanVars, xferVars,
                             copyVars, writeVars, auxVars>>
         ELSE batch_write_tags_call({q})

\* batch_write_tags(reader, url, quantity, lock) called with any quantity
batch_write_tags_any == batch_write_tags_call(QuantityArgs)

\* copy_to_new_tags(quantity, lock) called with any quantity
copy_to_new_tags_any == copy_to_new_tags_call(QuantityArgs, {lock})

InitQuantity == pc = "idle" /\ InitDev /\ InitLoopVars /\ InitScanVars /\ InitXferVars /\ InitCopyVars /\ InitWriteVars /\ InitAux

NextQuantity ==
    \/ check_reader
    \/ write_tag
    \/ batch_write_tags_any
    \/ bw_top
    \/ bw_connect
    \/ bw_get_uid
    \/ bw_dedup
    \/ bw_write
    \/ bw_disconnect
    \/ bw_except
    \/ Tick
    \/ read_source_tag
    \/ rs_top
    \/ rs_connect
    \/ rs_get_uid
    \/ rs_detect
    \/ rs_read
    \/ rs_disconnect
    \/ rs_except
    \/ rs_sleep
    \/ copy_to_new_tags_any
    \/ cp_top
    \/ cp_connect
    \/ cp_get_uid
    \/ cp_source_guard
    \/ cp_dedup
    \/ cp_write
    \/ cp_verify
    \/ cp_disconnect
    \/ cp_except

SpecQuantity == InitQuantity /\ [][NextQuantity]_vars

\* ------------------------------------------- transfers from a captured source
\* copy_to_new_tags(quantity, lock) with either value of the lock check box
copy_to_new_tags_lock == copy_to_new_tags_call(1..MaxQuantity, BOOLEAN)

\* the UID read_source_tag stored (self.source_tag_uid = uid)
CapturedUid == "A"

\* the state read_source_tag leaves when it returns True for the tag "A" with
\* an address on it
InitTransfer ==
    /\ pc = "idle"
    /\ reader = TRUE
    /\ conn_open = FALSE
    /\ last_status = "source_read"
    /\ last_uid = CapturedUid
    /\ uid = CapturedUid
    /\ iter_error = FALSE
    /\ InitScanVars
    /\ tags_written = 0
    /\ quantity = 1
    /\ progress = <<>>
    /\ success = FALSE
    /\ result = Ret(TRUE)
    /\ copying = FALSE
    /\ copies_made = 0
    /\ source_tag_data = "data"
    /\ source_tag_url = "url"
    /\ source_tag_uid = CapturedUid
    /\ rs_elapsed = 0
    /\ retry = 0
    /\ write_calls = {}
    /\ stop_requested = FALSE
    /\ InitWriteVars
    /\ InitAux

NextTransfer ==
    \/ check_reader
    \/ batch_write_tags
    \/ bw_top
    \/ bw_connect
    \/ bw_get_uid
    \/ bw_dedup
    \/ bw_write
    \/ bw_disconnect
    \/ bw_except
    \/ stop_copy_operation
    \/ reset
    \/ copy_to_new_tags_lock
    \/ cp_top
    \/ cp_connect
    \/ cp_get_uid
    \/ cp_source_guard
    \/ cp_dedup
    \/ cp_write
    \/ cp_verify
    \/ cp_disconnect
    \/ cp_except

SpecTransfer == InitTransfer /\ [][NextTransfer]_vars

\* =============================================================== properties
BwPcs == {"bw_top", "bw_connect", "bw_get_uid", "bw_dedup", "bw_write",
          "bw_disconnect", "bw_except"}

\* C1: in copy_to_new_tags, a poll whose UID equals the stored source UID is
\* answered with the "use a different tag" status and goes straight to the
\* disconnect with the counters and the set of written tags unchanged; the
\* write is entered only from the dedup step, which is entered only from a
\* guard that found a different UID, so the write never runs on the source UID
CopySourceGuard ==
    [][ /\ (pc = "cp_source_guard" /\ pc' # pc /\ uid = source_tag_uid)
             => /\ pc' = "cp_disconnect"
                /\ last_status' = "use_different_tag"
                /\ tags_written' = tags_written
                /\ copies_made' = copies_made
                /\ write_calls' = write_calls
        /\ (pc' = "cp_dedup" /\ pc # pc')
             => (pc = "cp_source_guard" /\ uid # source_tag_uid)
        /\ (pc' = "cp_write" /\ pc # pc') => pc = "cp_dedup"
        /\ (pc = "cp_disconnect" /\ pc' # pc) => pc' \in {"cp_top", "cp_except"}
        /\ (pc = "cp_except" /\ pc' # pc) => pc' = "cp_top"
        /\ (pc' = "cp_write") => uid' # source_tag_uid'
        /\ (pc \in CpPcs /\ pc' \in CpPcs) => source_tag_uid' \notin write_calls'
      ]_vars

\* the source tag was presented during a copy and rejected
CopySourceGuardWitness ==
    /\ pc = "cp_disconnect"
    /\ last_status = "use_different_tag"
    /\ uid = source_tag_uid
    /\ uid \in UIDS
    /\ uid \notin write_calls
    /\ tags_written = 1

\* C2: at the top of every polling iteration and once the operation has
\* returned, the channel opened by the iteration has been disconnected
ChannelReleased ==
    pc \in {"idle", "bw_top"} => ~conn_open

\* C3 as stated: four clean polls A, A, B, A give exactly two new-tag events
DedupTwoEvents ==
    (clean /\ pc = "scan_sleep" /\ polls = <<"A", "A", "B", "A">>)
        => Len(new_tag_log) = 2

\* C3 amended: four clean polls A, A, B, A give exactly three new-tag events,
\* for A, for B and for A again, since only the last seen UID is remembered
DedupThreeEvents ==
    (clean /\ pc = "scan_sleep" /\ polls = <<"A", "A", "B", "A">>)
        => new_tag_log = <<"A", "B", "A">>

\* the four polls A, A, B, A have completed without any error
DedupWitness ==
    /\ clean
    /\ pc = "scan_sleep"
    /\ polls = <<"A", "A", "B", "A">>
    /\ last_uid = "A"

\* C4: whenever the loop comes to its top with more than scan_timeout seconds
\* since the last new-tag event, it reports the timeout, clears scanning and
\* stops (the timer restarts on new-tag events only)
ScanTimeoutSinceNewTag ==
    [][ (pc = "scan_top" /\ pc' # pc /\ scanning /\ since_new_tag > scan_timeout)
          => (pc' = "idle" /\ ~scanning' /\ last_status' = "timed_out") ]_vars

\* C5: once an iteration of the scan loop has hit an error, last_uid is None
\* when the iteration ends
ErrorResetsLastUid ==
    (iter_error /\ pc \in {"scan_sleep", "scan_top"}) => last_uid = None

\* C6: in batch_write_tags a failed write or a failed identity query leaves
\* tags_written alone, makes no progress callback and returns to polling (a
\* failed write emits the error status); the loop is left only with
\* tags_written = quantity, and an iteration starts only while tags are missing
BatchResilience ==
    [][ /\ (pc = "bw_write" /\ pc' # pc /\ ~success')
             => /\ tags_written' = tags_written
                /\ progress' = progress
                /\ last_status' = "error"
                /\ pc' = "bw_disconnect"
        /\ (pc = "bw_get_uid" /\ pc' # pc /\ iter_error')
             => /\ tags_written' = tags_written
                /\ progress' = progress
                /\ last_status' = last_status
                /\ pc' \in BwPcs
        /\ (pc = "bw_disconnect" /\ pc' # pc) => pc' = "bw_top"
        /\ (pc = "bw_top" /\ pc' # pc /\ tags_written < quantity)
             => pc' = "bw_connect"
        /\ (pc \in BwPcs /\ pc' = "idle") => (tags_written' = quantity /\ result' = Ret(TRUE))
      ]_vars

\* a write failed after one tag of a batch of two was written, and the batch
\* is still polling
BatchResilienceWitness ==
    /\ pc = "bw_connect"
    /\ last_status = "error"
    /\ ~success
    /\ tags_written = 1
    /\ quantity = 2

\* C7: once stop_copy_operation was called during copy_to_new_tags, copying
\* stays false, the next evaluation of the loop condition leaves the loop
\* without another iteration, and the operation returns whether the quantity
\* had been reached
StopDuringCopy ==
    [][ /\ (stop_requested /\ pc \in CpPcs) => ~copying
        /\ (stop_requested /\ pc = "cp_top" /\ pc' # pc)
             => /\ pc' = "idle"
                /\ ~copying'
                /\ result' = Ret(tags_written = quantity)
                /\ tags_written' = tags_written
                /\ write_calls' = write_calls
      ]_vars

\* a copy of two tags was stopped after its first tag and has returned False
StopDuringCopyWitness ==
    /\ stop_requested
    /\ pc = "idle"
    /\ result = Ret(FALSE)
    /\ ~copying
    /\ tags_written = 1
    /\ quantity = 2

\* C8: after a stop request, a loop that comes to the top of an iteration exits
StopHonouredAtTop ==
    [][ (stop_requested /\ pc \in {"rs_top", "cp_top"} /\ pc' # pc)
          => pc' = "idle" ]_vars

\* the transmits of trace with the command and page of its i-th entry
SameCommand(i) ==
    {k \in 1..Len(trace) : trace[k].cmd = trace[i].cmd /\ trace[k].page = trace[i].page}

\* the i-th command of trace was answered with a success status at or after i,
\* before position n
AnsweredOk(i, n) ==
    \E k \in SameCommand(i) : i <= k /\ k < n /\ trace[k].sw = "ok"

Rank(c) ==
    CASE c = "GET_UID" -> 0
      [] c = "INIT" -> 1
      [] c = "WRITE" -> 2
      [] c = "READ" -> 3
      [] c = "LOCK" -> 4

\* C9: the transmits of write_url_to_tag are in the order identity query, init,
\* page writes ascending from page 4, verification reads, lock; a read is sent
\* only after every page was written; the lock is sent only if requested and
\* after every earlier command was answered with success, and nothing follows
\* it; the call returns True only if no status was a failure and every command
\* sent was answered with success
WriteProtocolOrder ==
    LET n == Len(trace) IN
    /\ \A i \in 1..n : \A j \in 1..n :
         i < j => Rank(trace[i].cmd) <= Rank(trace[j].cmd)
    /\ n > 0 => trace[1].cmd = "GET_UID"
    /\ \A i \in 1..n :
         trace[i].cmd = "WRITE" =>
           /\ trace[i].page \in BasePage..(BasePage + n_pages - 1)
           /\ (trace[i - 1].cmd # "WRITE" => trace[i].page = BasePage)
           /\ (trace[i - 1].cmd = "WRITE" =>
                 trace[i].page \in {trace[i - 1].page, trace[i - 1].page + 1})
    /\ \A i \in 1..n :
         trace[i].cmd = "READ" =>
           \A p \in BasePage..(BasePage + n_pages - 1) :
             \E j \in 1..(i - 1) :
               trace[j].cmd = "WRITE" /\ trace[j].page = p /\ trace[j].sw = "ok"
    /\ \A i \in 1..n :
         trace[i].cmd = "LOCK" =>
           /\ lock
           /\ \A j \in 1..(i - 1) :
                trace[j].sw # "bad" /\ (trace[j].cmd # "LOCK" => AnsweredOk(j, i))
           /\ \A j \in i..n : trace[j].cmd = "LOCK"
    /\ w_ok = Ret(TRUE) =>
           /\ \A j \in 1..n : trace[j].sw # "bad" /\ AnsweredOk(j, n + 1)
           /\ trace[n].cmd = IF lock THEN "LOCK" ELSE "READ"

\* a write of five pages with lock returned True after a retried transmit
WriteProtocolWitness ==
    /\ pc = "idle"
    /\ w_ok = Ret(TRUE)
    /\ lock
    /\ n_pages = 5
    /\ faults > 0
    /\ trace[Len(trace)].cmd = "LOCK"

\* C10 as stated: a call that failed on a write-path command made three
\* attempts of that command
WriteRetryOnBadStatus ==
    (pc = "idle" /\ w_ok = Ret(FALSE) /\ trace[Len(trace)].cmd # "GET_UID")
        => Cardinality(SameCommand(Len(trace))) = write_max_retries

\* C10 amended: a command whose transmit raises is sent again, up to three
\* attempts in all, and the call fails when the third raises; a command
\* answered with a failure status is not sent again and fails the call at once
WriteRetryOnTransmitError ==
    LET n == Len(trace) IN
    /\ \A i \in 1..n : Cardinality(SameCommand(i)) <= write_max_retries
    /\ \A i \in 1..(n - 1) :
         /\ trace[i].sw = "exc" => trace[i + 1].cmd = trace[i].cmd
                                   /\ trace[i + 1].page = trace[i].page
         /\ trace[i].sw # "bad"
    /\ (n > 0 /\ trace[n].sw = "bad") => (pc = "idle" /\ w_ok = Ret(FALSE))
    /\ (n > 0 /\ trace[n].sw = "exc") =>
         IF pc = "idle"
         THEN w_ok = Ret(FALSE) /\ Cardinality(SameCommand(n)) = write_max_retries
         ELSE Cardinality(SameCommand(n)) < write_max_retries

\* a page write raised three times and the call returned False
WriteRetryWitness ==
    /\ pc = "idle"
    /\ w_ok = Ret(FALSE)
    /\ Len(trace) > 3
    /\ trace[Len(trace)].cmd = "WRITE"
    /\ trace[Len(trace)].sw = "exc"
    /\ Cardinality(SameCommand(Len(trace))) = write_max_retries

\* C11: with the shell as the caller, at most one worker thread at a time is
\* inside an iteration of its loop (channel open, device commands going out)
ExclusiveDeviceAccess ==
    Cardinality({t \in 1..MaxThreads : threads[t].at = "body"}) <= 1

\* scheme- and trailing-slash-tolerant form of an address
RECURSIVE RStripSlash(_)
RStripSlash(s) ==
    IF Len(s) > 0 /\ Char(s, Len(s)) = "/" THEN RStripSlash(SubSeq(s, 1, Len(s) - 1)) ELSE s

Canon(s) ==
    RStripSlash(IF StartsWith(s, "http://") THEN Drop(s, 7)
                ELSE IF StartsWith(s, "https://") THEN Drop(s, 8)
                ELSE s)

\* C12: for an input that validate_url accepts, decoding the encoding of the
\* normalized string gives the normalized string back, up to the scheme and
\* trailing slashes
RoundTrip ==
    (/\ codec_pc = "decoded"
     /\ normalized # <<>>
     /\ normalized[1].is_valid
     /\ text = normalized[1].normalized_url)
        => /\ complete_url # <<>>
           /\ Canon(complete_url[1]) = Canon(text)

\* C13: validate_url applied to its own normalized string returns the same
\* (is_valid, normalized) pair
NormalizeIdempotent ==
    renormalized # <<>> => renormalized = normalized

NormalizeIdempotentWitness ==
    /\ renormalized # <<>>
    /\ normalized[1].is_valid
    /\ normalized[1].normalized_url # url

\* C14: every message _create_url_ndef returns starts with 0x03, ends with
\* 0xFE, and its length byte counts exactly the bytes between the two, that is
\* the 4-byte record header plus the payload length the header declares
TerminatorInvariant ==
    codec_pc \in {"encoded", "decoded"} /\ ndef_data # <<>>
        => /\ ndef_data[1] = 3
           /\ ndef_data[Len(ndef_data)] = 254
           /\ ndef_data[2] = Len(ndef_data) - 3
           /\ ndef_data[6] \in {84, 85}
           /\ ndef_data[2] = 4 + ndef_data[5]

TerminatorInvariantWitness ==
    /\ codec_pc = "encoded"
    /\ ndef_data[6] = 84
    /\ Len(text) > 0

\* C19: a string that begins with tel: or mailto: is encoded as a 'T' record
\* with a zero-length language code
TelMailtoAsText ==
    (codec_pc = "encoded" /\ StartsWithAny(text, <<"tel:", "mailto:">>))
        => ndef_data[6] = 84 /\ ndef_data[7] = 0

\* C20: the text record D1 01 02 'T' 00 "hi" decodes to "hi", and the text
\* record _create_url_ndef emits for a text decodes back to that text
TextRecordDecode ==
    codec_pc = "decoded"
        => /\ data \in TextHiBuffers => complete_url = <<"hi">>
           /\ (ndef_data # <<>> /\ ndef_data[6] = 84) => complete_url = <<text>>

\* C15: a memory read returns at most four bytes for each page below the
\* ceiling of its mode (36 pages for the compact read, 130 for the extended
\* one, 80 for the extended one on an ACR122); once a page failed or began
\* with 0xFE no later page is read, the result holds no page after it, and
\* when the first such page is a terminator page the result ends with it
ReadTermination ==
    LET ceiling == IF ~extended THEN 36 ELSE IF is_acr122u THEN 80 ELSE 130
        n == Len(page_reads)
    IN  /\ Len(all_data) <= ceiling * 4
        /\ \A i \in 1..n : page_reads[i] = BasePage + i - 1
        /\ first_stop # 0 =>
             /\ n = first_stop - BasePage + 1
             /\ rd_pc = "idle"
             /\ \A i \in 1..(n - 1) : all_data[4 * (i - 1) + 1] # 254
             /\ \/ Len(all_data) = 4 * (n - 1)
                \/ /\ Len(all_data) = 4 * n
                   /\ all_data[4 * (n - 1) + 1] = 254

\* an extended read stopped by the terminator on its third page, and returned
ReadTerminationWitness ==
    /\ rd_pc = "idle"
    /\ extended
    /\ first_stop = BasePage + 2
    /\ Len(all_data) = 12
    /\ all_data[9] = 254

\* C16: whatever the device does, a call of connect_with_retry makes at most
\* max_attempts x 5 connect attempts (5 rounds, 6 on an ACR122), no exception
\* leaves it, it returns success only from a connect whose identity transmit
\* answered 0x90, and a call that has used up every combination returns
\* (None, False)
OpenChannelTotality ==
    LET rounds == IF is_acr122u THEN 6 ELSE 5
    IN  /\ connects <= rounds * 5
        /\ ~cn_raised
        /\ cn_pc = "idle" /\ connects > 0 => cn_result \in {Ret(TRUE), Ret(FALSE)}
        /\ cn_result = Ret(TRUE) => connects > 0
        /\ cn_pc # "idle" => cn_result = None
        /\ cn_pc = "idle" /\ connects = rounds * 5 /\ cn_result # Ret(TRUE)
             => cn_result = Ret(FALSE)

\* a call on a reader that is not an ACR122 has returned (None, False) after
\* its 25th connect attempt
OpenChannelTotalityWitness ==
    /\ cn_pc = "idle"
    /\ ~is_acr122u
    /\ connects = 25
    /\ cn_result = Ret(FALSE)

\* C17: find_reader returns found = true only with a selected device whose
\* name holds no deny-list substring and holds a known-model substring, the
\* first of the table giving the label; and when no enumerated device holds a
\* known-model substring it returns found = false with no device selected
DeviceSelection ==
    fr_pc = "idle" /\ fr_result # <<>> /\ fr_result[2] # "Error" =>
        /\ fr_result[1] = Ret(TRUE) =>
             /\ selected # None
             /\ ~Ignored(selected)
             /\ \E i \in 1..Len(reader_models) :
                    /\ ModelMatches(selected, i)
                    /\ \A j \in 1..(i - 1) : ~ModelMatches(selected, j)
                    /\ fr_result[2] = reader_models[i][2]
        /\ (\A k \in 1..Len(available_readers) :
                \A i \in 1..Len(reader_models) :
                    ~ModelMatches(available_readers[k], i))
             => fr_result[1] = Ret(FALSE) /\ selected = None

\* C18: whenever read_source_tag returns True the copier holds the source
\* memory, the source UID and a non-empty address; whenever it returns False
\* (timeout) none of the three is set
SourceCaptureComplete ==
    [][(pc \in RsPcs /\ pc' = "idle") =>
         ((result' = Ret(TRUE) =>
              (source_tag_data' # None /\ source_tag_uid' # None
               /\ source_tag_url' # None))
          /\ (result' = Ret(FALSE) =>
              (source_tag_data' = None /\ source_tag_uid' = None
               /\ source_tag_url' = None)))]_vars

\* index of the first record header D1 .. .. 'U' or 'T' of a buffer, -1 when
\* it has none
FirstRecord(d) ==
    LET hs == {j \in 0..(Len(d) - 4) : At(d, j) = 209 /\ At(d, j + 3) \in {84, 85}}
    IN IF hs = {} THEN -1 ELSE CHOOSE j \in hs : \A h \in hs : j <= h

\* the payload the first record declares runs past the end of the buffer
TruncatedPayload(d) ==
    /\ FirstRecord(d) >= 0
    /\ FirstRecord(d) + 4 + At(d, FirstRecord(d) + 2) > Len(d)

\* C21: extract_url_from_data returns None, and no partial address or text,
\* for a buffer whose record declares a payload that runs past the bytes
\* available
DecodeRejectsTruncated ==
    (codec_pc = "decoded" /\ TruncatedPayload(data)) => complete_url = <<>>

\* C22: a batch write or a copy requested with quantity < 1 opens no channel,
\* writes no tag, and never returns True
QuantityPolicy ==
    [][(quantity' < 1 /\ pc' # pc) =>
         (/\ pc' \notin {"bw_connect", "cp_connect"}
          /\ tags_written' = 0
          /\ ((pc \in {"bw_top", "cp_top"} /\ pc' = "idle") => result' = Ret(FALSE)))]_vars

\* the host prefixes of the private ranges
PrivatePrefixes ==
    {"10.", "192.168."} \cup
    {"172." \o k \o "." : k \in {"16", "17", "18", "19", "20", "21", "22", "23",
                                 "24", "25", "26", "27", "28", "29", "30", "31"}}

PrivateHttps(n) ==
    StartsWith(n, "https://") /\ \E h \in PrivatePrefixes : StartsWith(Drop(n, 8), h)

\* C23: validate_url never returns an address that starts with https://
\* followed by a private-range host prefix; an input of that form comes back
\* with the scheme rewritten to http:// and the rest (after the strip of the
\* surrounding whitespace that opens the normalization) unchanged
LocalNetworkRewrite ==
    normalized # <<>> =>
        /\ ~PrivateHttps(normalized[1].normalized_url)
        /\ PrivateHttps(url) =>
             normalized[1].normalized_url = "http://" \o Drop(Strip(url), 8)
        /\ url = "https://192.168.1.5/admin" =>
             normalized[1] = [is_valid |-> TRUE,
                              normalized_url |-> "http://192.168.1.5/admin"]

\* validate_url has answered for https://192.168.1.5/admin
LocalNetworkRewriteWitness ==
    /\ url = "https://192.168.1.5/admin"
    /\ normalized # <<>>
    /\ normalized[1].normalized_url = "http://192.168.1.5/admin"

\* C24: in a copy with lock requested the lock command has not been sent to a
\* tag when the copier's read-back comparison for it begins, and no tag is
\* left locked by an iteration that did not count it
LockAfterCopyVerification ==
    /\ pc = "cp_verify" => ~tag_locked
    /\ (pc = "cp_disconnect" /\ tag_locked)
         => last_status \in {"success_all", "wrote_next"}

\* C25: in the scan loop a poll whose UID equals last_uid goes straight to the
\* disconnect, with no memory read, no decode and no new-tag event; the memory
\* read and decode are entered only from a poll whose UID differs from
\* last_uid, and last_uid equals that UID from then on through the read
ScanConsecutiveDedup ==
    [][ (/\ (pc = "scan_dedup" /\ pc' # pc /\ uid = last_uid)
             => (/\ pc' = "scan_disconnect"
                 /\ new_tag_log' = new_tag_log
                 /\ last_uid' = last_uid)
         /\ (pc' = "scan_read" /\ pc # "scan_read")
             => (pc = "scan_dedup" /\ uid # last_uid /\ last_uid' = uid)
         /\ Len(new_tag_log') > Len(new_tag_log) => pc' = "scan_read"
         /\ pc' = "scan_read" => last_uid' = uid') ]_vars

\* the second of two clean polls of the same tag has been skipped
ScanConsecutiveDedupWitness ==
    /\ pc = "scan_disconnect"
    /\ clean
    /\ polls = <<"A", "A">>
    /\ new_tag_log = <<"A">>
    /\ last_uid = "A"
    /\ uid = "A"

\* C26: in batch_write_tags a poll whose UID equals last_uid goes to the
\* disconnect with no write and no count; a write is entered only from a poll
\* whose UID differs from the UID of the poll before it, and only a write
\* raises the counter, by one; last_uid is not forgotten between polls
BatchSkipsPresentedTag ==
    [][ (/\ (pc = "bw_dedup" /\ pc' # pc /\ uid = last_uid)
             => (/\ pc' = "bw_disconnect"
                 /\ tags_written' = tags_written
                 /\ progress' = progress)
         /\ (pc' = "bw_write" /\ pc # "bw_write")
             => (/\ pc = "bw_dedup"
                 /\ (last_poll = <<>> \/ last_poll[1] # uid)
                 /\ last_uid' = uid)
         /\ ((pc \in {"bw_top", "bw_connect", "bw_get_uid", "bw_dedup",
                      "bw_write", "bw_disconnect", "bw_except"}
              /\ tags_written' # tags_written)
             => (pc = "bw_write" /\ tags_written' = tags_written + 1))
         /\ ((pc \in {"bw_top", "bw_connect", "bw_get_uid", "bw_write",
                      "bw_disconnect", "bw_except"})
             => last_uid' = last_uid)) ]_vars

\* the poll after a written tag found the same tag and skipped it
BatchSkipsPresentedTagWitness ==
    /\ pc = "bw_disconnect"
    /\ last_poll = <<"A", FALSE>>
    /\ last_uid = "A"
    /\ tags_written = 1
    /\ quantity = 2

SameAddress(a, b) ==
    a = b \/ RStrip(StripProtocol(a)) = RStrip(StripProtocol(b))

\* C28: in copy_to_new_tags the verification is entered only from a write
\* attempt that returned ok, one of at most max_retries attempts; the tag is
\* counted and progress emitted exactly when the re-read decoded to the source
\* address or to one equal to it up to scheme and trailing slashes; otherwise
\* the counter and the progress are unchanged and the status is the
\* verification failure; nothing else in the copy loop counts a tag
CopyCountsVerifiedWrites ==
    [][ (/\ (pc' = "cp_verify" /\ pc # "cp_verify")
             => (pc = "cp_write" /\ retry < max_retries /\ success')
         /\ (pc = "cp_verify" /\ pc' # pc)
             => (/\ success
                 /\ IF readback' # <<>> /\ SameAddress(readback'[1], ExpectedUrl)
                    THEN /\ tags_written' = tags_written + 1
                         /\ progress' = <<tags_written + 1, quantity>>
                    ELSE /\ tags_written' = tags_written
                         /\ progress' = progress
                         /\ copies_made' = copies_made
                         /\ last_status' = "verify_failed")
         /\ (pc \in CpPcs \ {"cp_verify"})
             => (tags_written' = tags_written /\ progress' = progress)) ]_vars

\* a tag whose re-read differs from the source address only in the scheme has
\* been counted
CopyCountsVerifiedWritesWitness ==
    /\ pc = "cp_disconnect"
    /\ readback = <<"https://url">>
    /\ tags_written = 1
    /\ progress = <<1, quantity>>
    /\ last_status \in {"success_all", "wrote_next"}

\* C29: a copy worker that was alive, at any position, when
\* stop_copy_operation ran does not begin another iteration of its loop
StopNeverLost ==
    [][ \A t \in 1..MaxThreads :
          (threads[t].kind = "copy" /\ t \in stopped /\ threads[t].at # "body")
            => threads'[t].at # "body" ]_vars

\* C30: whatever reset() does meanwhile, a copy never calls write_url_to_tag
\* on the tag its source was captured from, and the guard never lets a tag
\* through to the write on a comparison with a cleared source UID
SourceGuardUnderReset ==
    [][ (/\ (pc \in CpPcs /\ pc' = "cp_write") => uid' # CapturedUid
         /\ (pc \in CpPcs) => CapturedUid \notin write_calls'
         /\ (pc = "cp_source_guard" /\ source_tag_uid = None /\ uid = CapturedUid)
             => pc' # "cp_dedup") ]_vars

\* the transmit that ended the call on a page write: a failure status, or the
\* last of write_max_retries raises of the same command
FailedPageWrite(i) ==
    /\ trace[i].cmd = "WRITE"
    /\ \/ trace[i].sw = "bad"
       \/ /\ trace[i].sw = "exc"
          /\ Cardinality({j \in 1..i : /\ trace[j].cmd = "WRITE"
                                       /\ trace[j].page = trace[i].page
                                       /\ trace[j].sw = "exc"}) = write_max_retries

\* C31: in write_url_to_tag, after a page write answered with a failure status
\* or raising for the third time, nothing more is sent on the channel and the
\* call has returned False with the message naming that page
AbortOnPageWriteFailure ==
    \A i \in 1..Len(trace) :
      FailedPageWrite(i) =>
        /\ i = Len(trace)
        /\ pc = "idle"
        /\ w_ok = Ret(FALSE)
        /\ w_message = <<"WRITE", trace[i].page>>

\* the write of the second page was answered with a failure status
AbortOnPageWriteFailureWitness ==
    /\ pc = "idle"
    /\ w_ok = Ret(FALSE)
    /\ lock
    /\ Len(trace) = 4
    /\ trace[4] = Sent("WRITE", BasePage + 1, "bad")
    /\ w_message = <<"WRITE", BasePage + 1>>

\* C32: connect_with_retry has returned success only when the last two calls
\* on the channel were a connect that succeeded and, right after it, the
\* identity transmit answered with status 0x90; a call that has returned
\* otherwise has returned (None, False)
ChannelValidated ==
    /\ cn_result = Ret(TRUE) =>
          /\ cn_pc = "idle"
          /\ cn_calls = << [call |-> "connect", sw |-> "ok"],
                           [call |-> "verify", sw |-> "ok"] >>
    /\ (cn_pc = "idle" /\ cn_calls # <<>> /\ cn_result # Ret(TRUE))
          => cn_result = Ret(FALSE)

\* success on the second protocol, after a rejected identity command on the first
ChannelValidatedWitness ==
    /\ cn_pc = "idle"
    /\ cn_result = Ret(TRUE)
    /\ connects = 2
    /\ protocol = 2

\* C33: in connect_with_retry every connect attempt after the first, and the
\* return of (None, False) after a failed attempt, directly follows a
\* disconnect of the channel
DisconnectBetweenAttempts ==
    [][ (/\ (cn_pc = "connect" /\ connects > 0 /\ connects' = connects + 1)
             => cn_calls[Len(cn_calls)].call = "disconnect"
         /\ (cn_result = None /\ cn_result' = Ret(FALSE) /\ connects > 0)
             => cn_calls'[Len(cn_calls')].call = "disconnect") ]_vars

\* C34: read_tag_memory and read_tag_memory_full read a data page only after
\* the presence check and the page 3 read both answered 0x90; when either
\* raised or answered another status the call has returned with no data and
\* no data page read; no exception leaves the call, which returns a sequence
\* of whole pages
MemoryReadAbort ==
    /\ page_reads # <<>> => rd_checks = <<"ok", "ok">>
    /\ (\E i \in 1..Len(rd_checks) : rd_checks[i] # "ok")
          => (rd_pc = "idle" /\ all_data = <<>> /\ page_reads = <<>>)
    /\ \A i \in 1..Len(page_reads) : page_reads[i] >= BasePage
    /\ ~rd_raised
    /\ Len(all_data) % 4 = 0

\* an extended read whose page 3 read was answered with a failure status
MemoryReadAbortWitness ==
    /\ rd_pc = "idle"
    /\ extended
    /\ rd_checks = <<"ok", "bad">>
    /\ all_data = <<>>

\* C35: once LOCK_CARD has been sent to the tag of an iteration of
\* copy_to_new_tags, no later attempt of the write retry loop runs
\* write_url_to_tag through its init and page writes on that tag
NoWriteAfterLock ==
    [][ (pc = "cp_write" /\ tag_locked) => pc' # "cp_verify" ]_vars

\* C36: in batch_write_tags, when the write to a tag failed and the next poll
\* that reads a UID finds the same tag, that poll attempts the write again
RetryOfFailedTag ==
    [][ (pc = "bw_dedup" /\ pc' # pc /\ last_poll = <<uid, TRUE>> /\ ~success)
          => pc' = "bw_write" ]_vars

\* C37: within one run of batch_write_tags no tag is counted twice: a write
\* that is counted is a write to a tag the run has not counted before
OneCountPerTag ==
    [][ (pc = "bw_write" /\ tags_written' = tags_written + 1)
          => uid \notin counted ]_vars

\* C38: validate_url gives an address that begins "htttps://" or "ttps://" the
\* result of the same address with "https://" in its place, and one that
\* begins "ttp://" the result of the same address with "http://"
TruncatedSchemeRepair ==
    codec_pc = "normalized" =>
        /\ StartsWith(url, "htttps://")
             => normalized[1] = validate_url("https://" \o Drop(url, 9))
        /\ StartsWith(url, "ttps://")
             => normalized[1] = validate_url("https://" \o Drop(url, 7))
        /\ StartsWith(url, "ttp://")
             => normalized[1] = validate_url("http://" \o Drop(url, 6))

====
